---- MODULE Spec2Model ----
(***************************************************************************)
(* A model of the format-to-table extraction and field-normalization layer *)
(* of the WARN-notice scraper: the data-to-DataFrame functions of          *)
(* modules/datatodf.py (html, pdf, excel), the Cleaner                     *)
(* drop_empty_rows_cols, StateConfig.FIELDS of config.py, the Entry        *)
(* construction, pagination and link search of modules/spiders/base.py,    *)
(* the item pipelines of modules/pipelines.py and the run of               *)
(* run_scrape.py on top of config.CONFIG.                                  *)
(*                                                                         *)
(* A pandas DataFrame is a record [columns, rows]: columns is the sequence *)
(* of column labels and rows the sequence of rows, each a sequence of      *)
(* cells as long as columns.  A missing value (NaN / None) is the cell NaN.*)
(* Each subsystem has its own specification (SpecClean, SpecHtml, ...);    *)
(* the variables of the other subsystems stay at their idle values.        *)
(***************************************************************************)
EXTENDS Integers, Sequences, FiniteSets, TLC

VARIABLES
    cl_in,      \* Cleaner: the table before the first call (history)
    cl_arg,     \* Cleaner: the object passed to the last call, after the call
    cl_out,     \* Cleaner: the tables returned by the successive calls
    ht_doc,     \* html(): the tables the selector matches in the document
    ht_args,    \* html(): the keyword arguments of the call
    ht_res,     \* html(): the outcome of the call (NoResult before it)
    pdf_tables, \* pdf(): the tables camelot.read_pdf finds, in page order
    pdf_args,   \* pdf(): the keyword arguments of the call
    pdf_pc,     \* pdf(): where the call stands
    pdf_i,      \* pdf(): the loop index (from 1)
    pdf_columns,            \* pdf(): columns
    pdf_n_cols_expected,    \* pdf(): n_cols_expected
    pdf_frames, \* pdf(): frames
    pdf_log,    \* pdf(): the records logged by the call
    pdf_df_all, \* pdf(): df_all, the value returned
    xl_sheets,  \* excel(): the worksheets parsed, each the rows of ws.values
    xl_args,    \* excel(): the keyword arguments of the call
    xl_pc,      \* excel(): where the call stands
    xl_i,       \* excel(): the loop index (from 1)
    xl_df_all,  \* excel(): df_all, the value returned
    xl_log,     \* excel(): the records logged by the call
    sp_kind,    \* spider: its class, WARNSpider, JobLinkSpider or WAWARNSpider
    sp_config,  \* spider: the row of the configuration table of its state
    sp_table,   \* spider: the table of the response (to_df result, or the
                \* th / td texts of the JobLink results table, or the
                \* tables of the page source of WAWARNSpider)
    sp_links,   \* spider: per JobLink row, the detail page its link leads to
    sp_pc,      \* spider: where the parse callback stands
    sp_timestamp,   \* spider: timestamp of parse_as_df
    sp_df,      \* spider: df of parse_as_df after the Cleaner
    sp_k,       \* spider: the next row of the loop over the rows (from 1)
    sp_pending, \* spider: the requests for detail pages not answered yet
    sp_items,   \* spider: the items handed to the pipelines, in order, each
                \* with the callback that yielded it (by) and the value it
                \* had when Entry(...) created it (created)
    sp_log,     \* spider: the warnings and errors logged
    hd_columns, \* header normalization: df.columns before the step, each name
                \* a sequence of characters
    hd_out,     \* header normalization: df.columns after the step
    hd_pc,      \* header normalization: where the step stands
    pl_kind,    \* pipeline: its class, Jsonlines or Csv
    pl_pc,      \* pipeline: created, open (after open_spider) or closed
    pl_state_to_exporter,   \* pipeline: self.state_to_exporter
    pl_exporters,   \* pipeline: the exporters created so far, each with the
                \* file it writes to; an exporter is named by its position
    pl_files,   \* pipeline: the files opened so far, path -> items written
    pl_calls,   \* pipeline: the process_item calls so far and their outcome
    rn_rows,    \* run: Archive URL cell of each state of scrape_cfg
    rn_call,    \* run: the entry point called and its state argument
    rn_pc,      \* run: position of the run
    rn_CONFIG,  \* run: config.CONFIG, state -> StateConfig
    rn_process, \* run: the process of main and its crawlers
    rn_todo,    \* run: states main has still to add
    rn_log,     \* run: logged warnings
    rn_ret,     \* run: what add_state_to_process returned
    pg_spider,  \* pagination: data_format of the spider (state_config.FORMAT)
    pg_chains,  \* pagination: per followed link, the number of result pages
    pg_call,    \* pagination: how parse_as_df is first reached, with what
    pg_pc,      \* pagination: where the run of the spider stands
    pg_requests, \* pagination: the requests issued and not answered yet
    pg_page_count, \* pagination: self.page_count
    pg_parsed,  \* pagination: per chain, the parse_as_df calls made so far
    pg_log,     \* pagination: the "Downloaded N pages" messages logged
    lk_anchors, \* links: the a elements of the response, in document order
    lk_args,    \* links: link_kwargs, the keyword arguments of get_links
    lk_pc,      \* links: where parse_links stands
    lk_ret,     \* links: what get_links returned, <<>> for None
    lk_log,     \* links: the records logged by get_links
    lk_followed \* links: the links parse_links followed, in order

cleanVars == <<cl_in, cl_arg, cl_out>>
htmlVars == <<ht_doc, ht_args, ht_res>>
pdfVars == <<pdf_tables, pdf_args, pdf_pc, pdf_i, pdf_columns,
             pdf_n_cols_expected, pdf_frames, pdf_log, pdf_df_all>>

excelVars == <<xl_sheets, xl_args, xl_pc, xl_i, xl_df_all, xl_log>>

spiderVars == <<sp_kind, sp_config, sp_table, sp_links, sp_pc, sp_timestamp,
                sp_df, sp_k, sp_pending, sp_items, sp_log>>

headerVars == <<hd_columns, hd_out, hd_pc>>

pipelineVars == <<pl_kind, pl_pc, pl_state_to_exporter, pl_exporters,
                  pl_files, pl_calls>>

runVars == <<rn_rows, rn_call, rn_pc, rn_CONFIG, rn_process, rn_todo, rn_log,
             rn_ret>>

pagesVars == <<pg_spider, pg_chains, pg_call, pg_pc, pg_requests,
               pg_page_count, pg_parsed, pg_log>>

linksVars == <<lk_anchors, lk_args, lk_pc, lk_ret, lk_log, lk_followed>>

vars == <<cleanVars, htmlVars, pdfVars, excelVars, spiderVars, headerVars,
          pipelineVars, runVars, pagesVars, linksVars>>

\* the variables each subsystem leaves alone
notClean == <<htmlVars, pdfVars, excelVars, spiderVars, headerVars,
              pipelineVars, runVars, pagesVars, linksVars>>
notHtml == <<cleanVars, pdfVars, excelVars, spiderVars, headerVars,
             pipelineVars, runVars, pagesVars, linksVars>>
notPdf == <<cleanVars, htmlVars, excelVars, spiderVars, headerVars,
            pipelineVars, runVars, pagesVars, linksVars>>
notExcel == <<cleanVars, htmlVars, pdfVars, spiderVars, headerVars,
              pipelineVars, runVars, pagesVars, linksVars>>
notSpider == <<cleanVars, htmlVars, pdfVars, excelVars, headerVars,
               pipelineVars, runVars, pagesVars, linksVars>>
notHeader == <<cleanVars, htmlVars, pdfVars, excelVars, spiderVars,
               pipelineVars, runVars, pagesVars, linksVars>>
notPipeline == <<cleanVars, htmlVars, pdfVars, excelVars, spiderVars,
                 headerVars, runVars, pagesVars, linksVars>>
notRun == <<cleanVars, htmlVars, pdfVars, excelVars, spiderVars, headerVars,
            pipelineVars, pagesVars, linksVars>>
notPages == <<cleanVars, htmlVars, pdfVars, excelVars, spiderVars,
              headerVars, pipelineVars, runVars, linksVars>>
notLinks == <<cleanVars, htmlVars, pdfVars, excelVars, spiderVars,
              headerVars, pipelineVars, runVars, pagesVars>>

----------------------------------------------------------------------------
(* Generic helpers                                                         *)

\* pandas' missing value (NaN, None)
NaN == "<NaN>"

\* the positions 1..n that satisfy Keep, ascending
Positions(n, Keep(_)) == SelectSeq([i \in 1..n |-> i], Keep)

\* the elements of s at the positions idx, in the order of idx
Pick(s, idx) == [k \in 1..Len(idx) |-> s[idx[k]]]

\* the set of elements of a sequence
Range(s) == {s[i] : i \in 1..Len(s)}

Min(a, b) == IF a <= b THEN a ELSE b

\* no call made yet / Python's None
NoResult == [pc |-> "idle"]
None == "<None>"

\* pd.DataFrame()
EmptyFrame == [columns |-> <<>>, rows |-> <<>>]

NumCols(df) == Len(df.columns)
NumRows(df) == Len(df.rows)

\* the frame restricted to the rows at positions ridx and columns at cidx
Restrict(df, ridx, cidx) ==
    [columns |-> Pick(df.columns, cidx),
     rows    |-> [k \in 1..Len(ridx) |-> Pick(df.rows[ridx[k]], cidx)]]

----------------------------------------------------------------------------
(* The Cleaner: datatodf.drop_empty_rows_cols                              *)

\* bounds of the tables handed to the Cleaner
MaxCleanRows == 2
MaxCleanCols == 2
MaxCleanCalls == 2

\* cell values of the tables handed to the Cleaner
CleanCells == {NaN, "", "a"}

ColLabel(i) == <<"c", i>>

\* the table of nr rows and nc columns with the cells r
CleanInput(nc, r) == [columns |-> [c \in 1..nc |-> ColLabel(c)], rows |-> r]

\* df.dropna(axis=0, how='all'): drop the rows whose cells are all NaN
dropna_rows(df) ==
    LET keep(r) == \E c \in 1..NumCols(df) : df.rows[r][c] # NaN
    IN  Restrict(df, Positions(NumRows(df), keep), [c \in 1..NumCols(df) |-> c])

\* df.dropna(axis=1, how='all'): drop the columns whose cells are all NaN
dropna_cols(df) ==
    LET keep(c) == \E r \in 1..NumRows(df) : df.rows[r][c] # NaN
    IN  Restrict(df, [r \in 1..NumRows(df) |-> r], Positions(NumCols(df), keep))

\* a slip in the Cleaner: the fillna("") step forgotten
fillna_forgotten(df) == df

\* df.fillna(""): a new frame with every NaN replaced by the empty string
fillna(df) ==
    [columns |-> df.columns,
     rows    |-> [r \in 1..NumRows(df) |->
                    [c \in 1..NumCols(df) |->
                        IF df.rows[r][c] = NaN THEN "" ELSE df.rows[r][c]]]]

\* df.loc[:, df.ne("").any()]: keep the columns with a cell different from ""
keep_nonblank_cols(df) ==
    LET keep(c) == \E r \in 1..NumRows(df) : df.rows[r][c] # ""
    IN  Restrict(df, [r \in 1..NumRows(df) |-> r], Positions(NumCols(df), keep))

\* df[(df.T != "").any()]: keep the rows with a cell different from ""
keep_nonblank_rows(df) ==
    LET keep(r) == \E c \in 1..NumCols(df) : df.rows[r][c] # ""
    IN  Restrict(df, Positions(NumRows(df), keep), [c \in 1..NumCols(df) |-> c])

\* a slip in the Cleaner: dropna(how='any') in place of how='all'
drop_empty_rows_cols_any(df) ==
    LET keep(r) == \A c \in 1..NumCols(df) : df.rows[r][c] # NaN
        inplace == Restrict(df, Positions(NumRows(df), keep),
                            [c \in 1..NumCols(df) |-> c])
    IN  [arg |-> inplace,
         ret |-> keep_nonblank_rows(keep_nonblank_cols(fillna(inplace)))]

\* drop_empty_rows_cols(df): the two dropna calls act in place on the
\* caller's object (arg); from fillna on the function works on new frames
\* and returns the last of them (ret).
drop_empty_rows_cols(df) ==
    LET inplace == dropna_cols(dropna_rows(df))
    IN  [arg |-> inplace,
         ret |-> keep_nonblank_rows(keep_nonblank_cols(fillna(inplace)))]

CleanIdle ==
    /\ cl_in = EmptyFrame
    /\ cl_arg = EmptyFrame
    /\ cl_out = <<>>

HtmlIdle ==
    /\ ht_doc = <<>>
    /\ ht_args = None
    /\ ht_res = NoResult

PdfIdle ==
    /\ pdf_tables = <<>>
    /\ pdf_args = None
    /\ pdf_pc = "idle"
    /\ pdf_i = 0
    /\ pdf_columns = <<>>
    /\ pdf_n_cols_expected = 0
    /\ pdf_frames = <<>>
    /\ pdf_log = <<>>
    /\ pdf_df_all = EmptyFrame

ExcelIdle ==
    /\ xl_sheets = <<>>
    /\ xl_args = None
    /\ xl_pc = "idle"
    /\ xl_i = 0
    /\ xl_df_all = EmptyFrame
    /\ xl_log = <<>>

SpiderIdle ==
    /\ sp_kind = "idle"
    /\ sp_config = None
    /\ sp_table = EmptyFrame
    /\ sp_links = <<>>
    /\ sp_pc = "idle"
    /\ sp_timestamp = 0
    /\ sp_df = EmptyFrame
    /\ sp_k = 0
    /\ sp_pending = <<>>
    /\ sp_items = <<>>
    /\ sp_log = <<>>

HeaderIdle ==
    /\ hd_columns = <<>>
    /\ hd_out = <<>>
    /\ hd_pc = "idle"

PipelineIdle ==
    /\ pl_kind = "idle"
    /\ pl_pc = "idle"
    /\ pl_state_to_exporter = <<>>
    /\ pl_exporters = <<>>
    /\ pl_files = <<>>
    /\ pl_calls = <<>>

RunIdle ==
    /\ rn_rows = <<>>
    /\ rn_call = <<>>
    /\ rn_pc = "idle"
    /\ rn_CONFIG = <<>>
    /\ rn_process = <<>>
    /\ rn_todo = <<>>
    /\ rn_log = <<>>
    /\ rn_ret = <<>>

PagesIdle ==
    /\ pg_spider = <<>>
    /\ pg_chains = <<>>
    /\ pg_call = <<>>
    /\ pg_pc = "idle"
    /\ pg_requests = {}
    /\ pg_page_count = 0
    /\ pg_parsed = <<>>
    /\ pg_log = {}

LinksIdle ==
    /\ lk_anchors = <<>>
    /\ lk_args = <<>>
    /\ lk_pc = "idle"
    /\ lk_ret = <<>>
    /\ lk_log = <<>>
    /\ lk_followed = <<>>

InitClean ==
    /\ \E nr \in 0..MaxCleanRows, nc \in 0..MaxCleanCols :
          \E r \in [1..nr -> [1..nc -> CleanCells]] : cl_in = CleanInput(nc, r)
    /\ cl_arg = cl_in
    /\ cl_out = <<>>
    /\ HtmlIdle
    /\ PdfIdle
    /\ ExcelIdle
    /\ SpiderIdle
    /\ HeaderIdle
    /\ PipelineIdle
    /\ RunIdle
    /\ PagesIdle
    /\ LinksIdle

\* df = todf.drop_empty_rows_cols(df): the caller passes the table it holds
\* (the input, or the result of the previous call) and keeps the result
Clean ==
    /\ Len(cl_out) < MaxCleanCalls
    /\ LET cur == IF cl_out = <<>> THEN cl_in ELSE cl_out[Len(cl_out)]
           res == drop_empty_rows_cols(cur)
       IN  /\ cl_arg' = res.arg
           /\ cl_out' = Append(cl_out, res.ret)
    /\ UNCHANGED cl_in
    /\ UNCHANGED notClean

NextClean == Clean

SpecClean == InitClean /\ [][NextClean]_vars

\* a cell that is neither null nor the empty string
NonEmpty(cell) == cell # NaN /\ cell # ""

RowHasValue(df, r) == \E c \in 1..NumCols(df) : NonEmpty(df.rows[r][c])
ColHasValue(df, c) == \E r \in 1..NumRows(df) : NonEmpty(df.rows[r][c])

\* C2: applying the Cleaner to its own result gives that result again:
\* drop_empty_rows_cols(drop_empty_rows_cols(T)) = drop_empty_rows_cols(T).
C2_CleanerIdempotent ==
    Len(cl_out) >= 2 => cl_out[2] = cl_out[1]

\* C2 witness: the Cleaner ran twice on a table from which the first call
\* removed something and kept something.
C2_Witness ==
    /\ Len(cl_out) = 2
    /\ cl_out[1] # cl_in
    /\ NumRows(cl_out[1]) >= 1
    /\ \E r \in 1..NumRows(cl_in) : \E c \in 1..NumCols(cl_in) :
          cl_in.rows[r][c] = NaN

\* C3: the result of drop_empty_rows_cols(T) consists of exactly the rows
\* and exactly the columns of T that hold at least one cell that is neither
\* null nor "", in their original order, with the non-empty cells unchanged,
\* and it has no row and no column whose cells are all null or empty.
C3_CleanerKeepsExactlyNonEmpty ==
    Len(cl_out) >= 1 =>
        LET T == cl_in
            R == cl_out[1]
            keeprow(r) == RowHasValue(T, r)
            keepcol(c) == ColHasValue(T, c)
            ridx == Positions(NumRows(T), keeprow)
            cidx == Positions(NumCols(T), keepcol)
        IN  /\ NumRows(R) = Len(ridx)
            /\ R.columns = Pick(T.columns, cidx)
            /\ \A k \in 1..Len(ridx) :
                  /\ Len(R.rows[k]) = Len(cidx)
                  /\ \A j \in 1..Len(cidx) :
                        LET orig == T.rows[ridx[k]][cidx[j]]
                        IN  IF NonEmpty(orig)
                            THEN R.rows[k][j] = orig
                            ELSE ~NonEmpty(R.rows[k][j])
            /\ \A k \in 1..NumRows(R) : RowHasValue(R, k)
            /\ \A j \in 1..NumCols(R) : ColHasValue(R, j)

\* C3 witness: a table with an all-empty row and an all-empty column was
\* cleaned and something of it was kept.
C3_Witness ==
    /\ Len(cl_out) = 1
    /\ \E r \in 1..NumRows(cl_in) : ~RowHasValue(cl_in, r)
    /\ \E c \in 1..NumCols(cl_in) : ~ColHasValue(cl_in, c)
    /\ NumRows(cl_out[1]) >= 1
    /\ NumCols(cl_out[1]) >= 1

----------------------------------------------------------------------------
(* The tabular-HTML extractor: datatodf.html                               *)
(*                                                                         *)
(* A table is the sequence of its tr elements.  A row is a record          *)
(* [th, td]: th the texts of its header cells and td its data cells, each  *)
(* a record [text, hrefs] (hrefs: the @href attributes below the cell, in  *)
(* document order).  The document is the sequence of the tables the        *)
(* selector (tag / table_class) matches.                                   *)

\* bound: table rows (tr) per table
MaxHtmlRows == 2

\* string(.) of a cell, before str.strip
HtmlTexts == {"A", " B "}

\* str.strip on the texts above
strip(t) == IF t = " B " THEN "B" ELSE t

\* the data cells a row may hold at a position: without a link, or with a
\* relative link (first cell) or an absolute link (second cell)
TdCells(pos) ==
    [text : HtmlTexts,
     hrefs : {<<>>, <<IF pos = 1 THEN "/n1" ELSE "http://o/n2">>}]

TdSeqs ==
    {<<>>} \cup {<<c>> : c \in TdCells(1)}
           \cup {<<c, d>> : c \in TdCells(1), d \in TdCells(2)}

ThSeqs == {<<a>> : a \in HtmlTexts} \cup {<<a, b>> : a, b \in HtmlTexts}

HtmlRows ==
    {[th |-> <<>>, td |-> d] : d \in TdSeqs} \cup
    {[th |-> h, td |-> <<>>] : h \in ThSeqs}

\* the header-less table [["A","B"],["1","2"]]
HtmlExample ==
    LET cell(t) == [text |-> t, hrefs |-> <<>>]
    IN  <<[th |-> <<>>, td |-> <<cell("A"), cell("B")>>],
          [th |-> <<>>, td |-> <<cell("1"), cell("2")>>]>>

\* keyword arguments of html(); link_col is <<>> for None and <<n>> for n.
\* use_pandas is False; tag and table_class decide which tables ht_doc
\* holds; min_num_cols is not read by the function.
HtmlArgs ==
    {[base_url |-> b, link_col |-> l, drop_first_row |-> d] :
        b \in {"", "http://h"}, l \in {<<>>, <<0>>, <<1>>}, d \in BOOLEAN}

\* the order Index.difference sorts new column labels in
NameRank(name) ==
    CASE name = "A" -> 1
      [] name = "B" -> 2
      [] name = "Notice Link" -> 3
      [] name = "Updated Notices" -> 4
      [] OTHER -> 5

RECURSIVE SortedSeq(_)
SortedSeq(S) ==
    IF S = {} THEN <<>>
    ELSE LET m == CHOOSE x \in S : \A y \in S : NameRank(x) <= NameRank(y)
         IN  <<m>> \o SortedSeq(S \ {m})

\* str(list) of a list of hrefs
RECURSIVE PyListItems(_)
PyListItems(l) ==
    IF l = <<>> THEN ""
    ELSE "'" \o Head(l) \o "'" \o
         (IF Tail(l) = <<>> THEN "" ELSE ", " \o PyListItems(Tail(l)))

PyList(l) == "[" \o PyListItems(l) \o "]"

\* the value of column name in row k of a frame; NaN when the frame has no
\* such column
FrameGet(df, k, name) ==
    IF name \in Range(df.columns)
    THEN df.rows[k][CHOOSE i \in 1..NumCols(df) : df.columns[i] = name]
    ELSE NaN

\* df.append(fields, ignore_index=True) for a dict: the labels of fields the
\* frame lacks are added after its columns (sorted), older rows get NaN
\* there, and the dict becomes the last row
FrameAppend(df, fields) ==
    LET newcols == SortedSeq(DOMAIN fields \ Range(df.columns))
        cols == df.columns \o newcols
    IN  [columns |-> cols,
         rows |-> Append(
             [r \in 1..NumRows(df) |->
                 df.rows[r] \o [i \in 1..Len(newcols) |-> NaN]],
             [i \in 1..Len(cols) |->
                 IF cols[i] \in DOMAIN fields THEN fields[cols[i]] ELSE NaN])]

\* urljoin(base, url) on the links above: an absolute url, or any url
\* joined to the empty base, is the url itself; a path is put after the
\* scheme and host of the base
urljoin(base, url) ==
    IF url = "http://o/n2" \/ base = "" THEN url ELSE base \o url

\* get_text_of_matching_elements_lxml(row, './/td')
td_texts(row) == [i \in 1..Len(row.td) |-> strip(row.td[i].text)]

\* get_text_of_matching_elements_lxml(row, './/th')
th_texts(row) == [i \in 1..Len(row.th) |-> strip(row.th[i])]

\* get_text_of_matching_elements_lxml(table, './/th'): the header cells of
\* all rows of the table
RECURSIVE table_th_texts(_)
table_th_texts(rows) ==
    IF rows = <<>> THEN <<>>
    ELSE th_texts(Head(rows)) \o table_th_texts(Tail(rows))

\* row.xpath('.//*/@href'): every href below the row, whatever its column
RECURSIVE cells_hrefs(_)
cells_hrefs(cells) ==
    IF cells = <<>> THEN <<>>
    ELSE Head(cells).hrefs \o cells_hrefs(Tail(cells))

row_hrefs(row) == cells_hrefs(row.td)

\* dict(zip(columns, td)): pairs up to the shorter of the two; a label that
\* occurs twice keeps the value of its last occurrence
dict_zip(columns, td) ==
    LET n == Min(Len(columns), Len(td))
    IN  [name \in {columns[i] : i \in 1..n} |->
            td[CHOOSE i \in 1..n :
                  /\ columns[i] = name
                  /\ \A j \in 1..n : columns[j] = name => j <= i]]

\* d.update({key: value})
dict_update(d, key, value) ==
    [k \in DOMAIN d \cup {key} |-> IF k = key THEN value ELSE d[k]]

\* one pass of the loop over the rows of a table (datatodf.py 277-295)
html_row(row, columns, args, acc) ==
    LET fields == dict_zip(columns, td_texts(row))
        notice_hrefs == row_hrefs(row)
        linked ==
            IF args.link_col # <<>> /\ notice_hrefs # <<>>
            THEN LET f1 == dict_update(fields, "Notice Link",
                                       urljoin(args.base_url, notice_hrefs[1]))
                 IN  IF Len(notice_hrefs) > 1
                     THEN dict_update(f1, "Updated Notices",
                                      PyList(Tail(notice_hrefs)))
                     ELSE f1
            ELSE fields
    IN  [df |-> FrameAppend(acc.df, linked),
         log |-> IF args.link_col # <<>> /\ notice_hrefs = <<>>
                 THEN Append(acc.log, [level |-> "warning",
                                       msg |-> "no link in row"])
                 ELSE acc.log]

RECURSIVE html_rows(_, _, _, _)
html_rows(rows, columns, args, acc) ==
    IF rows = <<>> THEN acc
    ELSE html_rows(Tail(rows), columns, args,
                   html_row(Head(rows), columns, args, acc))

\* a slip in html(): the row that gave the column names is not popped
html_loop_rows_nopop(table, args) ==
    IF args.drop_first_row THEN Tail(table) ELSE table

\* the rows the loop runs over: table.xpath('.//body/tr') matches nothing
\* (a table holds no body element), so the rows are './/tr'; drop_first_row
\* pops the first; without header cells the first remaining row is popped
\* and gives the column names
html_loop_rows(table, args) ==
    LET rows0 == IF args.drop_first_row THEN Tail(table) ELSE table
    IN  IF table_th_texts(table) = <<>> /\ Len(rows0) > 0
        THEN Tail(rows0)
        ELSE rows0

html_columns(table, args) ==
    LET rows0 == IF args.drop_first_row THEN Tail(table) ELSE table
    IN  IF table_th_texts(table) = <<>> /\ Len(rows0) > 0
        THEN td_texts(Head(rows0))
        ELSE table_th_texts(table)

\* the body of the loop over the tables (datatodf.py 259-295)
html_table(table, args, acc) ==
    IF Len(table) = 0
    THEN [df |-> acc.df,
          log |-> Append(acc.log, [level |-> "error",
                                   msg |-> "No table rows found"])]
    ELSE html_rows(html_loop_rows(table, args), html_columns(table, args),
                   args, acc)

RECURSIVE html_tables(_, _, _)
html_tables(tables, args, acc) ==
    IF tables = <<>> THEN acc
    ELSE html_tables(Tail(tables), args, html_table(Head(tables), args, acc))

\* html(filepath, base_url, tag, table_class, link_col, drop_first_row)
html(tables, args) ==
    LET out == IF tables # <<>>
               THEN html_tables(tables, args, [df |-> EmptyFrame, log |-> <<>>])
               ELSE [df |-> EmptyFrame,
                     log |-> <<[level |-> "error", msg |-> "No table found"]>>]
    IN  [pc |-> "returned", df |-> out.df, log |-> out.log]

InitHtml ==
    \* no table matched, one table, or a table without rows followed by a
    \* table
    /\ \/ ht_doc = <<>>
       \/ ht_doc = <<HtmlExample>>
       \/ \E n \in 0..MaxHtmlRows : \E t \in [1..n -> HtmlRows] :
             ht_doc \in {<<t>>, <<<<>>, t>>}
    /\ ht_args \in HtmlArgs
    /\ ht_res = NoResult
    /\ CleanIdle
    /\ PdfIdle
    /\ ExcelIdle
    /\ SpiderIdle
    /\ HeaderIdle
    /\ PipelineIdle
    /\ RunIdle
    /\ PagesIdle
    /\ LinksIdle

\* df = to_df(response_path, **todf_kwargs) with to_df = todf.html
Html ==
    /\ ht_res = NoResult
    /\ ht_res' = html(ht_doc, ht_args)
    /\ UNCHANGED <<ht_doc, ht_args>>
    /\ UNCHANGED notHtml

NextHtml == Html

SpecHtml == InitHtml /\ [][NextHtml]_vars

\* html() returned for a document with exactly one matched table
HtmlOneTable == ht_res # NoResult /\ Len(ht_doc) = 1

\* the largest element of a non-empty set of numbers
Max(S) == CHOOSE x \in S : \A y \in S : y <= x

\* a header-less table with at least one row, parsed with the default
\* drop_first_row=False
C6_Case ==
    /\ HtmlOneTable
    /\ Len(ht_doc[1]) >= 1
    /\ table_th_texts(ht_doc[1]) = <<>>
    /\ ~ht_args.drop_first_row

\* C6 as stated: for a header-less table of n >= 1 rows html() yields n-1
\* records, and the k-th record maps the i-th column name (the i-th cell
\* text of the first row) to the i-th cell text of row k+1.
C6_Original ==
    C6_Case =>
        LET t == ht_doc[1]
            names == td_texts(t[1])
        IN  /\ NumRows(ht_res.df) = Len(t) - 1
            /\ \A k \in 1..(Len(t) - 1) :
                 \A i \in 1..Min(Len(names), Len(t[k+1].td)) :
                    FrameGet(ht_res.df, k, names[i]) = td_texts(t[k+1])[i]

\* C6 as amended: n-1 records; the k-th record maps each column name to the
\* cell text of row k+1 at the last position, within the cells of that row,
\* at which the name occurs in the first row (so with distinct names the
\* i-th name maps to the i-th cell), and has no value for a name whose
\* positions all lie beyond the cells of the row; the table
\* [["A","B"],["1","2"]] yields the single record {"A":"1","B":"2"}.
C6_HeaderlessRecords ==
    /\ C6_Case =>
        LET t == ht_doc[1]
            names == td_texts(t[1])
        IN  /\ NumRows(ht_res.df) = Len(t) - 1
            /\ \A k \in 1..(Len(t) - 1) :
                 \A name \in Range(names) :
                    LET P == {i \in 1..Min(Len(names), Len(t[k+1].td)) :
                                names[i] = name}
                    IN  FrameGet(ht_res.df, k, name) =
                            IF P = {} THEN NaN ELSE td_texts(t[k+1])[Max(P)]
    /\ (C6_Case /\ ht_doc[1] = HtmlExample /\ ht_args.link_col = <<>>) =>
            ht_res.df = [columns |-> <<"A", "B">>, rows |-> <<<<"1", "2">>>>]

\* C6 witness: the header-less table [["A","B"],["1","2"]] was parsed into
\* its single record.
C6_Witness ==
    /\ C6_Case
    /\ ht_doc[1] = HtmlExample
    /\ NumRows(ht_res.df) = 1
    /\ FrameGet(ht_res.df, 1, "A") = "1"
    /\ FrameGet(ht_res.df, 1, "B") = "2"

\* a table whose first row holds the header cells and whose other rows hold
\* data cells only, parsed with the default drop_first_row=False
C7_Case ==
    /\ HtmlOneTable
    /\ Len(ht_doc[1]) >= 1
    /\ ht_doc[1][1].th # <<>>
    /\ \A k \in 2..Len(ht_doc[1]) : ht_doc[1][k].th = <<>>
    /\ ~ht_args.drop_first_row

\* C7: for a table with header cells html() takes the column names from the
\* header cells and yields exactly one record per row after the header row,
\* the number of records being the number of rows after the header row.
C7_Original ==
    C7_Case =>
        /\ html_columns(ht_doc[1], ht_args) = th_texts(ht_doc[1][1])
        /\ NumRows(ht_res.df) = Len(ht_doc[1]) - 1

\* the hrefs in the column numbered link_col of a row, whether the columns
\* are counted from 0 (AKWARNSpider.parse passes 0) or from 1 (XPath)
link_col_hrefs(row, link_col) ==
    {row.td[i].hrefs[1] :
        i \in {p \in {link_col[1], link_col[1] + 1} \cap (1..Len(row.td)) :
                 row.td[p].hrefs # <<>>}}

\* C8: with link_col given, the 'Notice Link' of each record is the link
\* found in the column link_col of its row, resolved against base_url; a
\* link that occurs only in another column is not taken as Notice Link.
C8_Original ==
    (C6_Case /\ ht_args.link_col # <<>>) =>
        \A k \in 1..(Len(ht_doc[1]) - 1) :
            LET h == link_col_hrefs(ht_doc[1][k+1], ht_args.link_col)
                link == FrameGet(ht_res.df, k, "Notice Link")
            IN  IF h = {}
                THEN link = NaN
                ELSE \E x \in h : link = urljoin(ht_args.base_url, x)

----------------------------------------------------------------------------
(* The PDF extractor: datatodf.pdf                                         *)
(*                                                                         *)
(* camelot.read_pdf is a black box: it gives the tables of the document in *)
(* page order, each a frame (table.df) with the column labels 0..nc-1.     *)
(* The call is modelled statement by statement: PdfRead (126-133), one     *)
(* PdfIter per pass of the loop (134-186), PdfConcat (188-193).            *)
(* col_delimiter keeps its default None.                                   *)

\* bounds: tables per document, rows per table
MaxPdfTables == 3
MaxPdfRows == 2

\* column counts of the tables
PdfWidths == {1, 2, 3}

\* the cells of the first row of the first table, as camelot reads them
PdfHeaderText(c) ==
    CASE c = 1 -> "Date\n"
      [] c = 2 -> "Company"
      [] OTHER -> "Notice  Date"

\* " ".join(str(s).split()) on the texts of the model
whitespace_to_singlespace(s) ==
    CASE s = "Date\n" -> "Date"
      [] s = "Notice  Date" -> "Notice Date"
      [] OTHER -> s

\* the text of cell (r, c) of table i
PdfCell(i, r, c) ==
    IF i = 1 /\ r = 1 THEN PdfHeaderText(c)
    ELSE ToString(i) \o "." \o ToString(r) \o "." \o ToString(c)

\* table.df of the i-th table, with nr rows and nc columns
PdfTable(i, nr, nc) ==
    [columns |-> [c \in 1..nc |-> c - 1],
     rows |-> [r \in 1..nr |-> [c \in 1..nc |-> PdfCell(i, r, c)]]]

PdfShapes == [nr : 1..MaxPdfRows, nc : PdfWidths]

\* keyword arguments of pdf(); flavor is pdf_kwargs['flavor'] (default
\* 'lattice'); column_names is <<>> for None and <<names>> for a list
PdfArgs ==
    [flavor : {"lattice", "stream"},
     header_on_all_pages : BOOLEAN,
     header_row : {0, 1},
     first_page_header : {0, 1},
     column_names : {<<>>, <<<<"Date", "Company">>>>}]

\* a slip in pdf(): the given column names are taken whatever their number
pdf_names_match_any(n_cols_current, column_names) == TRUE

\* the check of the given column names (datatodf.py 158)
pdf_names_match(n_cols_current, column_names) ==
    n_cols_current = Len(column_names)

\* a slip in pdf(): a table with more columns is kept whatever the flavor
pdf_keep_table_ge(n_cols_current, n_cols_expected, flavor) ==
    n_cols_current >= n_cols_expected

\* the column number check (datatodf.py 167)
pdf_keep_table(n_cols_current, n_cols_expected, flavor) ==
    \/ n_cols_current = n_cols_expected
    \/ (n_cols_current > n_cols_expected /\ flavor = "stream")

\* df.drop(columns=df.columns[-1], axis=1, inplace=True)
drop_last_column(df) ==
    [columns |-> SubSeq(df.columns, 1, NumCols(df) - 1),
     rows |-> [r \in 1..NumRows(df) |->
                  SubSeq(df.rows[r], 1, NumCols(df) - 1)]]

\* a slip in pdf(): the first column is dropped in place of the last
RECURSIVE pdf_trim_first(_, _)
pdf_trim_first(df, n_cols_expected) ==
    IF NumCols(df) > n_cols_expected
    THEN pdf_trim_first(
            [columns |-> Tail(df.columns),
             rows |-> [r \in 1..NumRows(df) |-> Tail(df.rows[r])]],
            n_cols_expected)
    ELSE df

\* while n_cols_current > n_cols_expected: drop the last column (170-172)
RECURSIVE pdf_trim(_, _)
pdf_trim(df, n_cols_expected) ==
    IF NumCols(df) > n_cols_expected
    THEN pdf_trim(drop_last_column(df), n_cols_expected)
    ELSE df

\* a slip in pdf(): the header rows of the first page are taken off every
\* table
pdf_rows_to_drop_as_first(i, args) ==
    args.header_row + args.first_page_header + 1

\* the header rows of table i: rows_to_drop (177-181), as a count
pdf_rows_to_drop(i, args) ==
    IF args.header_on_all_pages \/ i = 1
    THEN IF i = 1
         THEN args.header_row + args.first_page_header + 1
         ELSE args.header_row + 1
    ELSE 0

\* pd.concat(frames, join='inner', ignore_index=True) of frames that carry
\* the same column labels: their rows, in order
RECURSIVE concat_rows(_)
concat_rows(frames) ==
    IF frames = <<>> THEN <<>>
    ELSE Head(frames).rows \o concat_rows(Tail(frames))

InitPdf ==
    /\ \E n \in 0..MaxPdfTables : \E sh \in [1..n -> PdfShapes] :
          pdf_tables = [i \in 1..n |-> PdfTable(i, sh[i].nr, sh[i].nc)]
    /\ pdf_args \in PdfArgs
    /\ pdf_pc = "start"
    /\ pdf_i = 0
    /\ pdf_columns = <<>>
    /\ pdf_n_cols_expected = 0
    /\ pdf_frames = <<>>
    /\ pdf_log = <<>>
    /\ pdf_df_all = EmptyFrame
    /\ CleanIdle
    /\ HtmlIdle
    /\ ExcelIdle
    /\ SpiderIdle
    /\ HeaderIdle
    /\ PipelineIdle
    /\ RunIdle
    /\ PagesIdle
    /\ LinksIdle

\* tables = camelot.read_pdf(...); frames = []; df_all = pd.DataFrame()
PdfRead ==
    /\ pdf_pc = "start"
    /\ pdf_pc' = "loop"
    /\ pdf_i' = 1
    /\ pdf_frames' = <<>>
    /\ pdf_df_all' = EmptyFrame
    /\ UNCHANGED <<pdf_tables, pdf_args, pdf_columns, pdf_n_cols_expected,
                   pdf_log>>
    /\ UNCHANGED notPdf

\* one pass of "for i, table in enumerate(tables)"
PdfIter ==
    /\ pdf_pc = "loop"
    /\ pdf_i <= Len(pdf_tables)
    /\ LET df == pdf_tables[pdf_i]
           n_cols_current == NumCols(df)
           first == pdf_i = 1
           name_row == pdf_args.header_row + pdf_args.first_page_header + 1
           \* 139-163: column names and expected column count
           index_error == first /\ pdf_args.column_names = <<>>
                                /\ name_row > NumRows(df)
           names_mismatch == first /\ pdf_args.column_names # <<>>
                /\ ~pdf_names_match(n_cols_current,
                                    pdf_args.column_names[1])
           columns ==
               IF ~first THEN pdf_columns
               ELSE IF pdf_args.column_names = <<>>
                    THEN [c \in 1..n_cols_current |->
                            whitespace_to_singlespace(df.rows[name_row][c])]
                    ELSE pdf_args.column_names[1]
           n_cols_expected ==
               IF ~first THEN pdf_n_cols_expected
               ELSE IF pdf_args.column_names = <<>>
                    THEN n_cols_current
                    ELSE Len(pdf_args.column_names[1])
           keep == pdf_keep_table(n_cols_current, n_cols_expected,
                                  pdf_args.flavor)
           trimmed == IF n_cols_current > n_cols_expected
                         /\ pdf_args.flavor = "stream"
                      THEN pdf_trim(df, n_cols_expected)
                      ELSE df
           \* df.columns = columns raises on a length mismatch
           value_error == Len(columns) # NumCols(trimmed)
           ndrop == pdf_rows_to_drop(pdf_i, pdf_args)
           \* df.drop(rows_to_drop, axis=0) raises on a missing label
           key_error == ndrop > NumRows(trimmed)
           frame == [columns |-> columns,
                     rows |-> SubSeq(trimmed.rows, ndrop + 1,
                                     NumRows(trimmed))]
       IN  IF index_error
           THEN /\ pdf_pc' = "raised"
                /\ UNCHANGED <<pdf_i, pdf_columns, pdf_n_cols_expected,
                               pdf_frames, pdf_log>>
           ELSE IF names_mismatch
           THEN /\ pdf_pc' = "returned"
                /\ pdf_log' = Append(pdf_log,
                       [level |-> "error", msg |-> "column_list mismatch"])
                /\ UNCHANGED <<pdf_i, pdf_columns, pdf_n_cols_expected,
                               pdf_frames>>
           ELSE /\ pdf_columns' = columns
                /\ pdf_n_cols_expected' = n_cols_expected
                /\ IF ~keep
                   THEN /\ pdf_log' = Append(pdf_log,
                              [level |-> "warning", msg |-> "Dropping a table"])
                        /\ pdf_i' = pdf_i + 1
                        /\ UNCHANGED <<pdf_pc, pdf_frames>>
                   ELSE IF value_error \/ key_error
                   THEN /\ pdf_pc' = "raised"
                        /\ UNCHANGED <<pdf_i, pdf_frames, pdf_log>>
                   ELSE /\ pdf_frames' = Append(pdf_frames, frame)
                        /\ pdf_i' = pdf_i + 1
                        /\ UNCHANGED <<pdf_pc, pdf_log>>
    /\ UNCHANGED <<pdf_tables, pdf_args, pdf_df_all>>
    /\ UNCHANGED notPdf

\* 188-193: concatenate the frames; pd.concat raises ValueError on an empty
\* list, which is caught and logged
PdfConcat ==
    /\ pdf_pc = "loop"
    /\ pdf_i > Len(pdf_tables)
    /\ pdf_pc' = "returned"
    /\ IF pdf_frames = <<>>
       THEN /\ pdf_log' = Append(pdf_log,
                   [level |-> "error", msg |-> "no tables were found"])
            /\ UNCHANGED pdf_df_all
       ELSE /\ pdf_df_all' = [columns |-> pdf_frames[1].columns,
                              rows |-> concat_rows(pdf_frames)]
            /\ UNCHANGED pdf_log
    /\ UNCHANGED <<pdf_tables, pdf_args, pdf_i, pdf_columns,
                   pdf_n_cols_expected, pdf_frames>>
    /\ UNCHANGED notPdf

NextPdf == PdfRead \/ PdfIter \/ PdfConcat

SpecPdf == InitPdf /\ [][NextPdf]_vars

\* table j has as many columns as the first table
PdfMatches(j) == NumCols(pdf_tables[j]) = NumCols(pdf_tables[1])

\* the number of leading rows of table j that are header rows
PdfHeaderRows(j) ==
    IF j = 1 THEN pdf_args.header_row + pdf_args.first_page_header + 1
    ELSE IF pdf_args.header_on_all_pages THEN pdf_args.header_row + 1
    ELSE 0

\* the rows of table j after its header rows
PdfDataRows(j) ==
    SubSeq(pdf_tables[j].rows, PdfHeaderRows(j) + 1, NumRows(pdf_tables[j]))

\* the data rows of the tables 1..n that match the first table, in order
RECURSIVE PdfMatchingRows(_)
PdfMatchingRows(n) ==
    IF n = 0 THEN <<>>
    ELSE PdfMatchingRows(n - 1) \o
         (IF PdfMatches(n) THEN PdfDataRows(n) ELSE <<>>)

PdfLogged(level) == {k \in 1..Len(pdf_log) : pdf_log[k].level = level}

\* the column names pdf() establishes for the first table
PdfNames ==
    IF pdf_args.column_names = <<>>
    THEN [c \in 1..NumCols(pdf_tables[1]) |->
            whitespace_to_singlespace(pdf_tables[1].rows[PdfHeaderRows(1)][c])]
    ELSE pdf_args.column_names[1]

\* C9: outside lenient mode (flavor other than 'stream'), when the column
\* names are taken from the first table or are given with the first table's
\* column count, pdf() returns exactly the data rows of the tables whose
\* column count equals that of the first table, in page order, under the
\* established column names; every other table contributes no row, is
\* logged with a warning (not an error), raises nothing and does not stop
\* the later tables.  Only a matching table shorter than its header rows
\* makes the call raise.
C9_LatticeKeepsMatchingTables ==
    (/\ pdf_args.flavor # "stream"
     /\ pdf_tables # <<>>
     /\ \/ pdf_args.column_names = <<>>
        \/ Len(pdf_args.column_names[1]) = NumCols(pdf_tables[1])) =>
        /\ pdf_pc = "returned" =>
              /\ pdf_df_all.rows = PdfMatchingRows(Len(pdf_tables))
              /\ pdf_df_all.columns = PdfNames
              /\ Cardinality(PdfLogged("warning")) =
                    Cardinality({j \in 1..Len(pdf_tables) : ~PdfMatches(j)})
              /\ PdfLogged("error") = {}
        /\ pdf_pc = "raised" =>
              /\ PdfMatches(pdf_i)
              /\ PdfHeaderRows(pdf_i) > NumRows(pdf_tables[pdf_i])
        /\ pdf_pc = "loop" =>
              Cardinality(PdfLogged("warning")) =
                  Cardinality({j \in 1..(pdf_i - 1) : ~PdfMatches(j)})

\* C9 witness: a 2-column first table with header <<Date, Company>>, then a
\* 3-column table, then another 2-column table: the call returned the data
\* rows of the first and third table and logged one drop.
C9_Witness ==
    /\ pdf_pc = "returned"
    /\ pdf_args.flavor = "lattice"
    /\ pdf_args.column_names = <<>>
    /\ Len(pdf_tables) = 3
    /\ NumCols(pdf_tables[1]) = 2
    /\ NumCols(pdf_tables[2]) = 3
    /\ NumCols(pdf_tables[3]) = 2
    /\ pdf_df_all.columns = <<"Date", "Company">>
    /\ pdf_df_all.rows = <<<<"1.2.1", "1.2.2">>, <<"3.2.1", "3.2.2">>>>
    /\ Cardinality(PdfLogged("warning")) = 1

\* C10: in every mode each table appended to frames has exactly the
\* expected column count (that of the first table) when it is appended: in
\* lenient mode (flavor 'stream') a table with more columns is kept with
\* its surplus rightmost columns removed; in every mode a table with fewer
\* columns is dropped.
C10_AppendedFramesHaveExpectedWidth ==
    (pdf_pc \in {"loop", "returned", "raised"} /\ pdf_i >= 2) =>
        LET nexp == pdf_n_cols_expected
            kept(j) ==
                \/ NumCols(pdf_tables[j]) = nexp
                \/ (NumCols(pdf_tables[j]) > nexp
                    /\ pdf_args.flavor = "stream")
            src == Positions(pdf_i - 1, kept)
        IN  /\ nexp = NumCols(pdf_tables[1])
            /\ Len(pdf_frames) = Len(src)
            /\ \A k \in 1..Len(src) :
                  /\ NumCols(pdf_frames[k]) = nexp
                  /\ pdf_frames[k].rows =
                        [r \in 1..(NumRows(pdf_tables[src[k]])
                                     - PdfHeaderRows(src[k])) |->
                            SubSeq(pdf_tables[src[k]].rows[
                                       r + PdfHeaderRows(src[k])], 1, nexp)]

\* C10 witness: in lenient mode a 3-column table after a 2-column first
\* table was appended with its third column removed, and a 1-column table
\* was dropped.
C10_Witness ==
    /\ pdf_pc = "returned"
    /\ pdf_args.flavor = "stream"
    /\ Len(pdf_tables) = 3
    /\ NumCols(pdf_tables[1]) = 2
    /\ NumCols(pdf_tables[2]) = 3
    /\ NumCols(pdf_tables[3]) = 1
    /\ Len(pdf_frames) = 2
    /\ pdf_frames[2].rows = <<<<"2.2.1", "2.2.2">>>>

\* the given column names do not fit the first table
PdfNamesMismatch ==
    /\ pdf_args.column_names # <<>>
    /\ pdf_tables # <<>>
    /\ Len(pdf_args.column_names[1]) # NumCols(pdf_tables[1])

\* C21: when pdf() is given column_names whose length differs from the
\* column count of the first table, it stops at the first table: it logs
\* one error and returns the empty table, raises nothing, logs no drop and
\* appends no table of the document to frames.
C21_NamesMismatchReturnsEmpty ==
    PdfNamesMismatch =>
        /\ pdf_pc # "raised"
        /\ pdf_frames = <<>>
        /\ pdf_df_all = EmptyFrame
        /\ PdfLogged("warning") = {}
        /\ pdf_pc = "loop" => (pdf_i = 1 /\ pdf_log = <<>>)
        /\ pdf_pc = "returned" =>
              (pdf_i = 1 /\ Cardinality(PdfLogged("error")) = 1
                        /\ Len(pdf_log) = 1)

\* C21 witness: the names <<Date, Company>> were given for a document
\* whose first table has 3 columns and whose second table has 2 columns
\* and a data row; the call returned the empty table with one error.
C21_Witness ==
    /\ pdf_pc = "returned"
    /\ pdf_args.column_names = <<<<"Date", "Company">>>>
    /\ Len(pdf_tables) = 2
    /\ NumCols(pdf_tables[1]) = 3
    /\ NumCols(pdf_tables[2]) = 2
    /\ NumRows(pdf_tables[2]) = 2
    /\ pdf_df_all = EmptyFrame
    /\ Cardinality(PdfLogged("error")) = 1

\* the tables among the first n that pdf() keeps, in page order
PdfKept(n) ==
    Positions(n, LAMBDA j :
        \/ NumCols(pdf_tables[j]) = NumCols(pdf_tables[1])
        \/ (NumCols(pdf_tables[j]) > NumCols(pdf_tables[1])
            /\ pdf_args.flavor = "stream"))

\* C22: every table pdf() keeps loses its header rows and only them: the
\* first table its rows 0..header_row+first_page_header, a later table its
\* rows 0..header_row when header_on_all_pages is true and no row when it
\* is false; the rows left keep their order, and every kept table carries
\* the column names established at the first table.
C22_OnlyHeaderRowsRemoved ==
    (pdf_pc \in {"loop", "returned", "raised"} /\ pdf_frames # <<>>) =>
        LET src == PdfKept(pdf_i - 1)
            lead(j) ==
                IF j = 1
                THEN pdf_args.header_row + pdf_args.first_page_header + 1
                ELSE IF pdf_args.header_on_all_pages
                     THEN pdf_args.header_row + 1
                     ELSE 0
        IN  /\ Len(pdf_frames) = Len(src)
            /\ \A k \in 1..Len(src) :
                  LET table == pdf_tables[src[k]]
                  IN  /\ pdf_frames[k].columns = PdfNames
                      /\ NumRows(pdf_frames[k]) =
                            NumRows(table) - lead(src[k])
                      /\ \A r \in 1..NumRows(pdf_frames[k]) :
                            pdf_frames[k].rows[r] =
                                SubSeq(table.rows[r + lead(src[k])], 1,
                                       NumCols(pdf_tables[1]))

\* C22 witness: header_on_all_pages false, header_row 0, first_page_header
\* 0, two 2-row tables of 2 columns: the first lost its name row, the
\* second kept both rows, and both carry the names of the first.
C22_Witness ==
    /\ pdf_pc = "returned"
    /\ ~pdf_args.header_on_all_pages
    /\ pdf_args.header_row = 0
    /\ pdf_args.first_page_header = 0
    /\ pdf_args.column_names = <<>>
    /\ Len(pdf_tables) = 2
    /\ Len(pdf_frames) = 2
    /\ pdf_frames[1].rows = <<<<"1.2.1", "1.2.2">>>>
    /\ pdf_frames[2].rows = <<<<"2.1.1", "2.1.2">>, <<"2.2.1", "2.2.2">>>>
    /\ pdf_frames[2].columns = <<"Date", "Company">>

----------------------------------------------------------------------------
(* The Excel extractor: datatodf.excel                                     *)
(*                                                                         *)
(* openpyxl is a black box: a worksheet gives its rows (ws.values), one    *)
(* per row 1..ws.max_row; a worksheet without any cell gives no row at all *)
(* and reports max_row = 1.  The call is modelled pass by pass: ExcelLoad  *)
(* (46-61), one ExcelSheet per worksheet (62-101), ExcelReturn (103).      *)
(* link_col keeps its default None, so the hyperlink branch (78-99) is not *)
(* entered.                                                                *)

\* bounds: worksheets per workbook, rows per worksheet
MaxXlSheets == 2
MaxXlRows == 5

\* column counts of the worksheets
XlWidths == {1, 2}

\* the value of cell (r, c) of worksheet s
XlCell(s, r, c) ==
    IF r = 1 THEN (IF c = 1 THEN "Date\n" ELSE "Company")
    ELSE ToString(s) \o "." \o ToString(r) \o "." \o ToString(c)

\* ws.values of the s-th worksheet, with nr rows of nc cells
XlSheet(s, nr, nc) == [r \in 1..nr |-> [c \in 1..nc |-> XlCell(s, r, c)]]

XlShapes == [nr : 0..MaxXlRows, nc : XlWidths]

\* ws.max_row
max_row(ws) == IF ws = <<>> THEN 1 ELSE Len(ws)

\* keyword arguments of excel(), None already replaced by 0 (46-49)
XlArgs == [skip_header : {0, 1}, drop_footer : {0, 1, 2}]

\* a slip in excel(): the row of the column names kept among the data rows
xl_rows_to_drop_names_kept(ws, args) ==
    (0..(args.skip_header - 1)) \cup
    ((max_row(ws) - args.drop_footer)..(max_row(ws) - 1))

\* header_rows + footer_rows (72-73): the row labels handed to df.drop
xl_rows_to_drop(ws, args) ==
    (0..args.skip_header) \cup
    ((max_row(ws) - args.drop_footer)..(max_row(ws) - 1))

\* df_all.append(df) for two frames: the labels of df the frame lacks are
\* added after its columns, older rows get NaN there
df_append(df_all, df) ==
    LET lacks(x) == x \notin Range(df_all.columns)
        cols == df_all.columns \o SelectSeq(df.columns, lacks)
    IN  [columns |-> cols,
         rows |-> [r \in 1..NumRows(df_all) |->
                      [i \in 1..Len(cols) |-> FrameGet(df_all, r, cols[i])]]
                  \o
                  [r \in 1..NumRows(df) |->
                      [i \in 1..Len(cols) |-> FrameGet(df, r, cols[i])]]]

InitExcel ==
    /\ \E n \in 1..MaxXlSheets : \E sh \in [1..n -> XlShapes] :
          xl_sheets = [s \in 1..n |-> XlSheet(s, sh[s].nr, sh[s].nc)]
    /\ xl_args \in XlArgs
    /\ xl_pc = "start"
    /\ xl_i = 0
    /\ xl_df_all = EmptyFrame
    /\ xl_log = <<>>
    /\ CleanIdle
    /\ HtmlIdle
    /\ PdfIdle
    /\ SpiderIdle
    /\ HeaderIdle
    /\ PipelineIdle
    /\ RunIdle
    /\ PagesIdle
    /\ LinksIdle

\* wb = openpyxl.load_workbook(filepath); df_all = pd.DataFrame()
ExcelLoad ==
    /\ xl_pc = "start"
    /\ xl_pc' = "loop"
    /\ xl_i' = 1
    /\ xl_df_all' = EmptyFrame
    /\ UNCHANGED <<xl_sheets, xl_args, xl_log>>
    /\ UNCHANGED notExcel

\* one pass of "for i, ws in enumerate(worksheets)"
ExcelSheet ==
    /\ xl_pc = "loop"
    /\ xl_i <= Len(xl_sheets)
    /\ LET ws == xl_sheets[xl_i]
           n == Len(ws)
           \* df.iloc[skip_header] raises IndexError beyond the last row
           index_error == xl_args.skip_header + 1 > n
           name_row == ws[xl_args.skip_header + 1]
           columns == [c \in 1..Len(name_row) |->
                          whitespace_to_singlespace(name_row[c])]
           labels == xl_rows_to_drop(ws, xl_args)
           \* df.drop raises KeyError on a label the frame does not have
           key_error == \E l \in labels : l \notin 0..(n - 1)
           keep(r) == (r - 1) \notin labels
           df == [columns |-> columns,
                  rows |-> Pick(ws, Positions(n, keep))]
       IN  IF index_error \/ key_error
           THEN /\ xl_pc' = "raised"
                /\ UNCHANGED <<xl_i, xl_df_all>>
           ELSE /\ xl_df_all' = df_append(xl_df_all, df)
                /\ xl_i' = xl_i + 1
                /\ UNCHANGED xl_pc
    /\ UNCHANGED <<xl_sheets, xl_args, xl_log>>
    /\ UNCHANGED notExcel

\* return df_all
ExcelReturn ==
    /\ xl_pc = "loop"
    /\ xl_i > Len(xl_sheets)
    /\ xl_pc' = "returned"
    /\ UNCHANGED <<xl_sheets, xl_args, xl_i, xl_df_all, xl_log>>
    /\ UNCHANGED notExcel

NextExcel == ExcelLoad \/ ExcelSheet \/ ExcelReturn

SpecExcel == InitExcel /\ [][NextExcel]_vars

\* every worksheet has more rows than skip_header + drop_footer
XlRoomForHeaderFooter ==
    \A s \in 1..Len(xl_sheets) :
        xl_args.skip_header + xl_args.drop_footer < Len(xl_sheets[s])

\* the number of rows the worksheets 1..n add to df_all when each
\* contributes its row count less lead leading and drop_footer trailing rows
RECURSIVE XlRowsOf(_, _)
XlRowsOf(n, lead) ==
    IF n = 0 THEN 0
    ELSE XlRowsOf(n - 1, lead)
         + Len(xl_sheets[n]) - lead - xl_args.drop_footer

\* the rows of df_all that come from worksheet s are the rows of the
\* worksheet after its first lead rows and before its last drop_footer
\* rows, under the names of the row of the column names
XlRowsFrom(s, lead) ==
    LET ws == xl_sheets[s]
        names == ws[xl_args.skip_header + 1]
        count == Len(ws) - lead - xl_args.drop_footer
        offset == XlRowsOf(s - 1, lead)
    IN  /\ offset + count <= NumRows(xl_df_all)
        /\ \A j \in 1..count : \A c \in 1..Len(names) :
              FrameGet(xl_df_all, offset + j,
                       whitespace_to_singlespace(names[c])) = ws[lead + j][c]

\* C11 as stated: for worksheets of N rows with skip_header = h and
\* drop_footer = f, h + f < N, excel() yields exactly N - h - f data rows
\* per worksheet: the rows after the h leading rows and before the f
\* trailing rows.
C11_Original ==
    (XlRoomForHeaderFooter /\ xl_pc \in {"loop", "returned", "raised"}) =>
        /\ xl_pc # "raised"
        /\ NumRows(xl_df_all) = XlRowsOf(xl_i - 1, xl_args.skip_header)
        /\ \A s \in 1..(xl_i - 1) : XlRowsFrom(s, xl_args.skip_header)

\* C11 amended: excel() yields exactly N - h - 1 - f data rows per
\* worksheet: the h leading rows, the row of the column names that follows
\* them and the f trailing rows are excluded and nothing else.
C11_ExcelDataRows ==
    (XlRoomForHeaderFooter /\ xl_pc \in {"loop", "returned", "raised"}) =>
        /\ xl_pc # "raised"
        /\ NumRows(xl_df_all) = XlRowsOf(xl_i - 1, xl_args.skip_header + 1)
        /\ \A s \in 1..(xl_i - 1) : XlRowsFrom(s, xl_args.skip_header + 1)

\* C11 witness: a worksheet of 5 rows read with skip_header = 1 and
\* drop_footer = 1 gave the 2 rows after the row of the column names and
\* before the last row.
C11_Witness ==
    /\ xl_pc = "returned"
    /\ Len(xl_sheets) = 1
    /\ Len(xl_sheets[1]) = 5
    /\ xl_args = [skip_header |-> 1, drop_footer |-> 1]
    /\ NumCols(xl_df_all) = 2
    /\ xl_df_all.rows = <<<<"1.3.1", "1.3.2">>, <<"1.4.1", "1.4.2">>>>

\* html() finished on a document without a table, or whose tables have no
\* row: it returned an empty table and logged an error
C5_Html ==
    (ht_res # NoResult /\ \A t \in 1..Len(ht_doc) : ht_doc[t] = <<>>) =>
        /\ ht_res.pc = "returned"
        /\ ht_res.df = EmptyFrame
        /\ \E k \in 1..Len(ht_res.log) : ht_res.log[k].level = "error"

\* pdf() finished on a document without a table
C5_Pdf ==
    (pdf_pc \in {"returned", "raised"} /\ pdf_tables = <<>>) =>
        /\ pdf_pc = "returned"
        /\ pdf_df_all = EmptyFrame
        /\ PdfLogged("error") # {}

\* excel() finished on a workbook whose worksheets are all empty
C5_Excel ==
    (/\ xl_pc \in {"returned", "raised"}
     /\ \A s \in 1..Len(xl_sheets) : xl_sheets[s] = <<>>) =>
        /\ xl_pc = "returned"
        /\ xl_df_all = EmptyFrame
        /\ \E k \in 1..Len(xl_log) : xl_log[k].level = "error"

\* C5: for every format, when the document holds no tabular structure (no
\* table element, no table row, no PDF table, an empty worksheet) the
\* extractor logs an error and returns an empty table; it never raises.
C5_Original == C5_Html /\ C5_Pdf /\ C5_Excel

----------------------------------------------------------------------------
(* The spiders: StateConfig.FIELDS, WARNSpider.parse_as_df,                *)
(* JobLinkSpider.parse and JobLinkSpider.parse_details                     *)
(*                                                                         *)
(* A spider is built from the row of the configuration table of its state. *)
(* parse_as_df is modelled from the table its extractor returned: header   *)
(* normalization, Cleaner, then one Entry per row (yielded one at a time). *)
(* JobLinkSpider.parse walks the rows of the results table: a row with a   *)
(* link issues a request for its detail page, answered later (in any       *)
(* order) by parse_details; a row without a link is yielded at once.       *)
(* modules/items.py (Entry, get_normalized_fields) is not part of the      *)
(* sources: an Entry is the dict of the keyword arguments given to it, and *)
(* get_normalized_fields follows the description of the Field Normalizer.  *)
(* WAWARNSpider.parse_page (spiders/states.py) stands for the state        *)
(* spiders that build their Entries themselves: it calls todf.html on the  *)
(* page source and yields one Entry per row of the result.                 *)
(* Pagination (next_page_text, next_page links) is left out: every         *)
(* response is a last page.                                                *)

\* bound: rows of the table of a response
MaxSpRows == 2

\* the column names of a configuration table, as tokens: "company_field" is
\* <<"company", "_field">>
ConfigKeys ==
    {<<"state_name">>, <<"company", "_field">>, <<"notice_date", "_field">>}

\* a row of the configuration table: the raw column names of the state's
\* archive (NaN where the table has no value)
ConfigRow(company, notice_date) ==
    [k \in ConfigKeys |->
        IF k = <<"state_name">> THEN "Alabama"
        ELSE IF k = <<"company", "_field">> THEN company
        ELSE notice_date]

SpConfigs ==
    {ConfigRow(c, d) : c \in {"Company", "A", NaN},
                       d \in {"Notice Date", "Eff Date", NaN}}

\* str.upper() on the tokens of the configuration keys
upper(token) ==
    CASE token = "company" -> "COMPANY"
      [] token = "notice_date" -> "NOTICE_DATE"
      [] token = "state_name" -> "STATE_NAME"
      [] token = "_field" -> "_FIELD"
      [] OTHER -> token

RECURSIVE upper_join(_)
upper_join(tokens) ==
    IF tokens = <<>> THEN ""
    ELSE upper(Head(tokens)) \o upper_join(Tail(tokens))

\* (re.sub(suffix, '', key)).upper(): every occurrence of "_field" removed
FieldsKey(key) ==
    LET other(t) == t # "_field"
    IN  upper_join(SelectSeq(key, other))

\* StateConfig.FIELDS: canonical name -> raw name, from the keys of the row
\* that end with "_field"
FIELDS(row) ==
    LET keys == {k \in DOMAIN row : k[Len(k)] = "_field"}
    IN  [c \in {FieldsKey(k) : k \in keys} |->
            row[CHOOSE k \in keys : FieldsKey(k) = c]]

\* the Field Normalizer: for each entry of the mapping whose raw name is a
\* key of the row, the value under the canonical name; the other entries
\* are skipped
get_normalized_fields(fields_dict, row) ==
    [c \in {x \in DOMAIN fields_dict : fields_dict[x] \in DOMAIN row} |->
        row[fields_dict[c]]]

\* d.update(e)
dict_merge(d, e) ==
    [k \in DOMAIN d \cup DOMAIN e |-> IF k \in DOMAIN e THEN e[k] ELSE d[k]]

\* row.to_dict() of row k of a frame
row_to_dict(df, k) == [name \in Range(df.columns) |-> FrameGet(df, k, name)]

\* the timestamps datetime.now() gives
SpTimes == {1, 2}

SpUrl == "http://h/warn"

\* response.url of the detail page of row k
DetailUrl(k) == "http://h/notice/" \o ToString(k)

\* a slip in parse_as_df: the raw fields passed as normalized_fields
parse_as_df_item_raw(state_name, timestamp, url, fields_dict, row) ==
    [state_name |-> state_name,
     timestamp |-> timestamp,
     url |-> url,
     fields |-> row,
     normalized_fields |-> row]

\* a slip in parse_as_df: every canonical name present in normalized_fields,
\* with a missing value where the row lacks the raw name
parse_as_df_item_padded(state_name, timestamp, url, fields_dict, row) ==
    [state_name |-> state_name,
     timestamp |-> timestamp,
     url |-> url,
     fields |-> row,
     normalized_fields |->
        [c \in DOMAIN fields_dict |->
            IF fields_dict[c] \in DOMAIN row THEN row[fields_dict[c]]
            ELSE NaN]]

\* the Entry parse_as_df builds for a row (base.py 136-143)
parse_as_df_item(state_name, timestamp, url, fields_dict, row) ==
    [state_name |-> state_name,
     timestamp |-> timestamp,
     url |-> url,
     fields |-> row,
     normalized_fields |-> get_normalized_fields(fields_dict, row)]

\* the Entry WAWARNSpider.parse_page builds for a row (states.py 1029-1036)
parse_page_item(state_name, timestamp, url, fields_dict, row) ==
    [state_name |-> state_name,
     timestamp |-> timestamp,
     url |-> url,
     fields |-> row,
     normalized_fields |-> get_normalized_fields(fields_dict, row)]

\* the Entry JobLinkSpider.parse builds for a row (base.py 354-359)
parse_item(state_name, timestamp, columns, td) ==
    [state_name |-> state_name,
     timestamp |-> timestamp,
     fields |-> dict_zip(columns, td)]

\* a slip in parse_details: the values of the results table win over those
\* of the detail page
parse_details_item_table_wins(item, url, fields_dict, dt, dd) ==
    LET fields == dict_merge(dict_zip(dt, dd), item.fields)
    IN  dict_update(
            dict_update(dict_update(item, "url", url), "fields", fields),
            "normalized_fields", get_normalized_fields(fields_dict, fields))

\* the item after parse_details (base.py 396-412): url, fields updated with
\* the dt/dd pairs of the detail page, normalized_fields
parse_details_item(item, url, fields_dict, dt, dd) ==
    LET fields == dict_merge(item.fields, dict_zip(dt, dd))
    IN  dict_update(
            dict_update(dict_update(item, "url", url), "fields", fields),
            "normalized_fields", get_normalized_fields(fields_dict, fields))

\* the column names the extractor returns for the archive table
SpHeaders ==
    {<<>>, <<"Company">>, <<"Notice  Date">>, <<"Company", "Notice  Date">>,
     <<"Notice  Date", "City">>}

SpCells == {NaN, "", "x"}

\* detail pages: their dt and dd texts
JlDetails ==
    {[dt |-> <<"Notice Date">>, dd |-> <<"d">>],
     [dt |-> <<"Company", "Eff Date">>, dd |-> <<"y", "e">>]}

\* rows of the JobLink results table: the td texts, and the detail page
\* behind the link of the first cell (<<>> when the row has no link)
JlRows ==
    [td : {<<"x", "c">>, <<"x">>},
     link : {<<>>} \cup {<<d>> : d \in JlDetails}]

\* bound: rows of the table of a page of WAWARNSpider
MaxWaRows == 3

\* the rows of the table of a page: a row of header cells, rows of data
\* cells, a row without cells
WaRows ==
    LET cell(t) == [text |-> t, hrefs |-> <<>>]
    IN  {[th |-> <<"A", " B ">>, td |-> <<>>],
         [th |-> <<>>, td |-> <<cell("A"), cell(" B ")>>],
         [th |-> <<>>, td |-> <<cell("A")>>],
         [th |-> <<>>, td |-> <<>>]}

\* todf_kwargs of WAWARNSpider.parse (states.py 996)
WaArgs == [base_url |-> "", link_col |-> <<>>, drop_first_row |-> TRUE]

InitSpider ==
    /\ sp_config \in SpConfigs
    /\ \/ /\ sp_kind = "WARNSpider"
          /\ \E h \in SpHeaders, n \in 0..MaxSpRows :
                \E r \in [1..n -> [1..Len(h) -> SpCells]] :
                   sp_table = [columns |-> h, rows |-> r]
          /\ sp_links = <<>>
       \/ /\ sp_kind = "JobLinkSpider"
          /\ \E n \in 0..MaxSpRows : \E r \in [1..n -> JlRows] :
                /\ sp_table = [columns |-> <<"Company", "City">>,
                               rows |-> [i \in 1..n |-> r[i].td]]
                /\ sp_links = [i \in 1..n |-> r[i].link]
       \/ /\ sp_kind = "WAWARNSpider"
          /\ \E n \in 1..MaxWaRows : \E t \in [1..n -> WaRows] :
                sp_table = <<t>>
          /\ sp_links = <<>>
    /\ sp_pc = "start"
    /\ sp_timestamp = 0
    /\ sp_df = EmptyFrame
    /\ sp_k = 1
    /\ sp_pending = <<>>
    /\ sp_items = <<>>
    /\ sp_log = <<>>
    /\ CleanIdle
    /\ HtmlIdle
    /\ PdfIdle
    /\ ExcelIdle
    /\ HeaderIdle
    /\ PipelineIdle
    /\ RunIdle
    /\ PagesIdle
    /\ LinksIdle

\* parse_as_df up to the loop over the rows (base.py 99-133): timestamp,
\* df = to_df(...), header normalization, Cleaner
ParseAsDf ==
    /\ sp_kind = "WARNSpider"
    /\ sp_pc = "start"
    /\ \E t \in SpTimes : sp_timestamp' = t
    /\ LET df == [columns |-> [c \in 1..NumCols(sp_table) |->
                        whitespace_to_singlespace(sp_table.columns[c])],
                  rows |-> sp_table.rows]
       IN  sp_df' = drop_empty_rows_cols(df).ret
    /\ sp_k' = 1
    /\ sp_pc' = "rows"
    /\ UNCHANGED <<sp_kind, sp_config, sp_table, sp_links, sp_pending,
                   sp_items, sp_log>>
    /\ UNCHANGED notSpider

\* one pass of "for index, row in df.iterrows()" (base.py 136-144)
ParseAsDfYield ==
    /\ sp_kind = "WARNSpider"
    /\ sp_pc = "rows"
    /\ sp_k <= NumRows(sp_df)
    /\ LET item == parse_as_df_item(sp_config[<<"state_name">>],
                        sp_timestamp, SpUrl, FIELDS(sp_config),
                        row_to_dict(sp_df, sp_k))
       IN  sp_items' = Append(sp_items,
              [by |-> "parse_as_df", item |-> item, created |-> item])
    /\ sp_k' = sp_k + 1
    /\ UNCHANGED <<sp_kind, sp_config, sp_table, sp_links, sp_pc,
                   sp_timestamp, sp_df, sp_pending, sp_log>>
    /\ UNCHANGED notSpider

\* the loop over the rows is over; no next page is expected
ParseAsDfEnd ==
    /\ sp_kind = "WARNSpider"
    /\ sp_pc = "rows"
    /\ sp_k > NumRows(sp_df)
    /\ sp_pc' = "done"
    /\ UNCHANGED <<sp_kind, sp_config, sp_table, sp_links, sp_timestamp,
                   sp_df, sp_k, sp_pending, sp_items, sp_log>>
    /\ UNCHANGED notSpider

\* one pass of "for row in rows" of JobLinkSpider.parse (base.py 350-369)
JobLinkParseRow ==
    /\ sp_kind = "JobLinkSpider"
    /\ sp_pc \in {"start", "rows"}
    /\ sp_k <= NumRows(sp_table)
    /\ \E t \in SpTimes :
          LET item == parse_item(sp_config[<<"state_name">>], t,
                                 sp_table.columns, sp_table.rows[sp_k])
          IN  IF sp_links[sp_k] # <<>>
              THEN /\ sp_pending' = Append(sp_pending,
                         [k |-> sp_k, item |-> item,
                          page |-> sp_links[sp_k][1]])
                   /\ UNCHANGED <<sp_items, sp_log>>
              ELSE /\ sp_log' = Append(sp_log,
                         [level |-> "warning",
                          msg |-> "Yielding partial Entry"])
                   /\ sp_items' = Append(sp_items,
                         [by |-> "parse", item |-> item,
                          created |-> item, row |-> sp_k])
                   /\ UNCHANGED sp_pending
    /\ sp_k' = sp_k + 1
    /\ sp_pc' = "rows"
    /\ UNCHANGED <<sp_kind, sp_config, sp_table, sp_links, sp_timestamp,
                   sp_df>>
    /\ UNCHANGED notSpider

\* the loop over the rows is over; the page has no next_page link
JobLinkParseEnd ==
    /\ sp_kind = "JobLinkSpider"
    /\ sp_pc \in {"start", "rows"}
    /\ sp_k > NumRows(sp_table)
    /\ sp_pc' = "done"
    /\ UNCHANGED <<sp_kind, sp_config, sp_table, sp_links, sp_timestamp,
                   sp_df, sp_k, sp_pending, sp_items, sp_log>>
    /\ UNCHANGED notSpider

\* parse_details(response, item) for one of the pending requests
ParseDetails ==
    /\ \E i \in 1..Len(sp_pending) :
          LET req == sp_pending[i]
              keep(j) == j # i
          IN  /\ sp_items' = Append(sp_items,
                    [by |-> "parse_details",
                     item |-> parse_details_item(req.item, DetailUrl(req.k),
                                 FIELDS(sp_config), req.page.dt,
                                 req.page.dd),
                     created |-> req.item, row |-> req.k])
              /\ sp_pending' = Pick(sp_pending,
                                    Positions(Len(sp_pending), keep))
    /\ UNCHANGED <<sp_kind, sp_config, sp_table, sp_links, sp_pc,
                   sp_timestamp, sp_df, sp_k, sp_log>>
    /\ UNCHANGED notSpider

\* parse_page up to the loop over the rows (states.py 1020-1027):
\* timestamp, df = todf.html(saveFilepath, **todf_kwargs)
ParsePage ==
    /\ sp_kind = "WAWARNSpider"
    /\ sp_pc = "start"
    /\ \E t \in SpTimes : sp_timestamp' = t
    /\ sp_df' = html(sp_table, WaArgs).df
    /\ sp_k' = 1
    /\ sp_pc' = "rows"
    /\ UNCHANGED <<sp_kind, sp_config, sp_table, sp_links, sp_pending,
                   sp_items, sp_log>>
    /\ UNCHANGED notSpider

\* one pass of "for index, row in df.iterrows()" (states.py 1029-1037)
ParsePageYield ==
    /\ sp_kind = "WAWARNSpider"
    /\ sp_pc = "rows"
    /\ sp_k <= NumRows(sp_df)
    /\ LET item == parse_page_item(sp_config[<<"state_name">>],
                        sp_timestamp, SpUrl, FIELDS(sp_config),
                        row_to_dict(sp_df, sp_k))
       IN  sp_items' = Append(sp_items,
              [by |-> "parse_page", item |-> item, created |-> item])
    /\ sp_k' = sp_k + 1
    /\ UNCHANGED <<sp_kind, sp_config, sp_table, sp_links, sp_pc,
                   sp_timestamp, sp_df, sp_pending, sp_log>>
    /\ UNCHANGED notSpider

\* the loop over the rows of the page is over
ParsePageEnd ==
    /\ sp_kind = "WAWARNSpider"
    /\ sp_pc = "rows"
    /\ sp_k > NumRows(sp_df)
    /\ sp_pc' = "done"
    /\ UNCHANGED <<sp_kind, sp_config, sp_table, sp_links, sp_timestamp,
                   sp_df, sp_k, sp_pending, sp_items, sp_log>>
    /\ UNCHANGED notSpider

NextSpider ==
    \/ ParseAsDf
    \/ ParseAsDfYield
    \/ ParseAsDfEnd
    \/ ParsePage
    \/ ParsePageYield
    \/ ParsePageEnd
    \/ JobLinkParseRow
    \/ JobLinkParseEnd
    \/ ParseDetails

SpecSpider == InitSpider /\ [][NextSpider]_vars

\* the items yielded by parse_as_df or parse_details
SpEntries ==
    {sp_items[i].item : i \in {j \in 1..Len(sp_items) :
                                  sp_items[j].by # "parse"}}

\* C1: every Entry yielded by parse_as_df or by parse_details carries
\* normalized_fields, and their keys are canonical field names of the
\* spider's configuration (keys of StateConfig.FIELDS).
C1_NormalizedKeysCanonical ==
    \A e \in SpEntries :
        /\ "normalized_fields" \in DOMAIN e
        /\ DOMAIN e.normalized_fields \subseteq DOMAIN FIELDS(sp_config)

\* C1 witness: an Entry was yielded whose row holds the columns Notice Date
\* and City, of which only Notice Date is configured: its normalized_fields
\* hold NOTICE_DATE alone.
C1_Witness ==
    \E e \in SpEntries :
        /\ DOMAIN e.fields = {"Notice Date", "City"}
        /\ DOMAIN e.normalized_fields = {"NOTICE_DATE"}
        /\ DOMAIN FIELDS(sp_config) = {"COMPANY", "NOTICE_DATE"}

\* C4: for every Entry yielded by parse_as_df or parse_details and every
\* configured canonical name: when the raw name is not a key of the row,
\* normalized_fields has no entry under the canonical name; when it is, the
\* value of the row is copied; and no error is raised or logged.
C4_MissingRawFieldSkipped ==
    /\ \A e \in SpEntries :
          \A c \in DOMAIN FIELDS(sp_config) :
             LET raw == FIELDS(sp_config)[c]
             IN  IF raw \in DOMAIN e.fields
                 THEN /\ c \in DOMAIN e.normalized_fields
                      /\ e.normalized_fields[c] = e.fields[raw]
                 ELSE c \notin DOMAIN e.normalized_fields
    /\ \A k \in 1..Len(sp_log) : sp_log[k].level # "error"
    /\ sp_pc # "raised"

\* C4 witness: Company and Notice Date are configured; the Cleaner removed
\* the empty Company column, so the row of the yielded Entry lacks Company:
\* its normalized_fields hold NOTICE_DATE and no COMPANY.
C4_Witness ==
    /\ sp_kind = "WARNSpider"
    /\ sp_table.columns = <<"Company", "Notice  Date">>
    /\ FIELDS(sp_config) = [c \in {"COMPANY", "NOTICE_DATE"} |->
                               IF c = "COMPANY" THEN "Company"
                               ELSE "Notice Date"]
    /\ \E e \in SpEntries :
          /\ DOMAIN e.fields = {"Notice Date"}
          /\ e.normalized_fields = [c \in {"NOTICE_DATE"} |-> "x"]

\* the Cleaner would keep the row an Entry was built from: one of its cells
\* is neither null nor empty
SpRowKept(e) == \E k \in DOMAIN e.fields : e.fields[k] \notin {NaN, ""}

\* the Entries parse_as_df yields come from a cleaned table
C12_ParseAsDf ==
    \A i \in 1..Len(sp_items) :
        sp_items[i].by = "parse_as_df" =>
            /\ SpRowKept(sp_items[i].item)
            /\ drop_empty_rows_cols(sp_df).ret = sp_df

\* C12: every Entry a spider yields is built from a row of a table that
\* went through the Cleaner before the Normalizer: no Entry is yielded for
\* a row the Cleaner would drop (all cells null or empty), and the table
\* the rows are normalized from is a cleaned one.
C12_Original ==
    \A i \in 1..Len(sp_items) :
        /\ SpRowKept(sp_items[i].item)
        /\ sp_items[i].by \in {"parse_as_df", "parse_page"} =>
              drop_empty_rows_cols(sp_df).ret = sp_df

\* C13: every Entry handed to the pipelines (by parse_as_df, by
\* JobLinkSpider.parse or by parse_details) carries all five parts:
\* state_name, timestamp, url, fields and normalized_fields.
C13_Original ==
    \A i \in 1..Len(sp_items) :
        {"state_name", "timestamp", "url", "fields", "normalized_fields"}
            \subseteq DOMAIN sp_items[i].item

\* the Entries of parse_as_df and parse_details carry all five parts
C13_FullEntries ==
    \A i \in 1..Len(sp_items) :
        sp_items[i].by # "parse" =>
            DOMAIN sp_items[i].item =
                {"state_name", "timestamp", "url", "fields",
                 "normalized_fields"}

\* the rows of the table a spider walks through
SpRowCount ==
    IF sp_kind = "JobLinkSpider" THEN NumRows(sp_table) ELSE NumRows(sp_df)

\* one Entry has been created for each row walked through so far
C14_OnePerRow ==
    sp_pc \in {"rows", "done"} =>
        /\ Len(sp_items) + Len(sp_pending) = sp_k - 1
        /\ sp_pc = "done" => sp_k - 1 = SpRowCount

\* C14: exactly one Entry is created for each extracted row, and an Entry
\* handed to the pipelines has the parts it was created with: none of url,
\* fields, normalized_fields, timestamp, state_name was set or changed
\* after Entry(...) built it.
C14_Original ==
    /\ C14_OnePerRow
    /\ \A i \in 1..Len(sp_items) :
          LET e == sp_items[i]
          IN  /\ DOMAIN e.item = DOMAIN e.created
              /\ \A part \in DOMAIN e.created : e.item[part] = e.created[part]

\* the Entries and the pending requests that stem from row k of the
\* results table of a JobLinkSpider
JlItemsOf(k) == {i \in 1..Len(sp_items) : sp_items[i].row = k}
JlPendingOf(k) == {i \in 1..Len(sp_pending) : sp_pending[i].k = k}

\* the value parse_details must leave under a name: that of the detail
\* page when it has the term, else that of the results table
JlExpected(k, name) ==
    LET page == sp_links[k][1]
        terms == {j \in 1..Len(page.dt) : page.dt[j] = name}
        cols == {c \in 1..Len(sp_table.columns) :
                    sp_table.columns[c] = name}
    IN  IF terms # {} THEN page.dd[CHOOSE j \in terms : TRUE]
        ELSE sp_table.rows[k][CHOOSE c \in cols : TRUE]

\* C25: for JobLinkSpider every row of the results table leads to exactly
\* one Entry: a row without a link has yielded its Entry, with the values
\* of the table, as soon as the loop has passed it; a row with a link
\* either still has its one request pending or has yielded one Entry from
\* parse_details, whose fields are the table values and the term /
\* description pairs of the detail page, the detail values overriding;
\* when the loop is over and every request is answered there is one Entry
\* per row.
C25_OneEntryPerRow ==
    sp_kind = "JobLinkSpider" =>
        /\ \A k \in 1..NumRows(sp_table) :
              IF k >= sp_k
              THEN JlItemsOf(k) = {} /\ JlPendingOf(k) = {}
              ELSE /\ Cardinality(JlItemsOf(k))
                        + Cardinality(JlPendingOf(k)) = 1
                   /\ sp_links[k] = <<>> => JlPendingOf(k) = {}
        /\ \A i \in 1..Len(sp_items) :
              LET e == sp_items[i]
                  td == sp_table.rows[e.row]
                  names == {sp_table.columns[c] : c \in 1..Len(td)}
              IN  IF sp_links[e.row] = <<>>
                  THEN /\ e.by = "parse"
                       /\ DOMAIN e.item.fields = names
                       /\ \A c \in 1..Len(td) :
                             e.item.fields[sp_table.columns[c]] = td[c]
                  ELSE /\ e.by = "parse_details"
                       /\ DOMAIN e.item.fields =
                             names \cup Range(sp_links[e.row][1].dt)
                       /\ \A name \in DOMAIN e.item.fields :
                             e.item.fields[name] = JlExpected(e.row, name)
        /\ (sp_pc = "done" /\ sp_pending = <<>>) =>
              Len(sp_items) = NumRows(sp_table)

\* C25 witness: two rows, the first without a link, the second with the
\* cells x, c and a detail page giving Company y and Eff Date e: both
\* Entries are out, the second with Company y, City c and Eff Date e.
C25_Witness ==
    /\ sp_kind = "JobLinkSpider"
    /\ sp_pc = "done"
    /\ sp_pending = <<>>
    /\ NumRows(sp_table) = 2
    /\ sp_links[1] = <<>>
    /\ sp_links[2] # <<>>
    /\ sp_table.rows[2] = <<"x", "c">>
    /\ Len(sp_items) = 2
    /\ sp_items[1].by = "parse"
    /\ sp_items[2].by = "parse_details"
    /\ sp_items[2].item.fields["Company"] = "y"
    /\ sp_items[2].item.fields["City"] = "c"
    /\ sp_items[2].item.fields["Eff Date"] = "e"

\* the table the caller passed to the last call of the Cleaner, as it was
\* before the call
CleanPassed ==
    IF Len(cl_out) = 1 THEN cl_in ELSE cl_out[Len(cl_out) - 1]

\* C15: drop_empty_rows_cols leaves the table passed to it unchanged: after
\* the call the caller's table has the rows, columns and cells it had
\* before.
C15_Original == Len(cl_out) >= 1 => cl_arg = CleanPassed

----------------------------------------------------------------------------
(* Header normalization: utils.whitespace_to_singlespace, character by     *)
(* character, as parse_as_df applies it to the column names (base.py 120). *)
(* A column name is a sequence of characters; the operator                 *)
(* whitespace_to_singlespace above is the same function on the texts of    *)
(* the table models.                                                       *)

\* bound: characters of a column name
MaxNameLen == 4

\* the characters of the column names: a letter, and whitespace
HdChars == {"a", " ", "\n", "\t"}

\* str.isspace
isspace(c) == c \in {" ", "\n", "\t"}

\* a slip: s.split(" ") in place of s.split(): only the space separates,
\* and every space does (empty words are kept)
RECURSIVE split_on_space(_, _)
split_on_space(s, word) ==
    IF s = <<>> THEN <<word>>
    ELSE IF Head(s) = " "
         THEN <<word>> \o split_on_space(Tail(s), <<>>)
         ELSE split_on_space(Tail(s), Append(word, Head(s)))

\* s.split(): the maximal runs of characters that are not whitespace, in
\* order (word is the run being read)
RECURSIVE split(_, _)
split(s, word) ==
    IF s = <<>> THEN (IF word = <<>> THEN <<>> ELSE <<word>>)
    ELSE IF isspace(Head(s))
         THEN (IF word = <<>> THEN <<>> ELSE <<word>>)
              \o split(Tail(s), <<>>)
         ELSE split(Tail(s), Append(word, Head(s)))

\* sep.join(words)
RECURSIVE join(_, _)
join(sep, words) ==
    IF words = <<>> THEN <<>>
    ELSE IF Tail(words) = <<>> THEN Head(words)
    ELSE Head(words) \o <<sep>> \o join(sep, Tail(words))

\* " ".join(str(s).split())
whitespace_to_singlespace_chars(s) == join(" ", split(s, <<>>))

\* a second column the frame may have
HdSecondName == <<"a", " ", " ", "a">>

InitHeader ==
    /\ \E n \in 0..MaxNameLen : \E name \in [1..n -> HdChars] :
          hd_columns \in {<<name>>, <<name, HdSecondName>>}
    /\ hd_out = <<>>
    /\ hd_pc = "start"
    /\ CleanIdle
    /\ HtmlIdle
    /\ PdfIdle
    /\ ExcelIdle
    /\ SpiderIdle
    /\ PipelineIdle
    /\ RunIdle
    /\ PagesIdle
    /\ LinksIdle

\* df.columns = df.columns.to_series().apply(whitespace_to_singlespace)
NormalizeHeader ==
    /\ hd_pc = "start"
    /\ hd_out' = [c \in 1..Len(hd_columns) |->
                     whitespace_to_singlespace_chars(hd_columns[c])]
    /\ hd_pc' = "done"
    /\ UNCHANGED hd_columns
    /\ UNCHANGED notHeader

NextHeader == NormalizeHeader

SpecHeader == InitHeader /\ [][NextHeader]_vars

\* the characters of a name that are not whitespace, in order
HdLetters(s) ==
    LET letter(c) == ~isspace(c)
    IN  SelectSeq(s, letter)

\* the positions where a word of a name starts after an earlier word
HdWordStarts(s) ==
    {i \in 2..Len(s) : /\ ~isspace(s[i])
                       /\ isspace(s[i - 1])
                       /\ \E j \in 1..(i - 1) : ~isspace(s[j])}

\* C16: after the header normalization step every column name has no
\* leading or trailing whitespace, no newline, no tab and no two adjacent
\* whitespace characters: its words, unchanged and in order, are separated
\* by exactly one space.
C16_HeaderSingleSpaced ==
    hd_pc = "done" =>
        /\ Len(hd_out) = Len(hd_columns)
        /\ \A c \in 1..Len(hd_out) :
              LET s == hd_out[c]
              IN  /\ \A i \in 1..Len(s) : s[i] \notin {"\n", "\t"}
                  /\ s # <<>> => (~isspace(s[1]) /\ ~isspace(s[Len(s)]))
                  /\ \A i \in 1..(Len(s) - 1) :
                        ~(isspace(s[i]) /\ isspace(s[i + 1]))
                  /\ HdLetters(s) = HdLetters(hd_columns[c])
                  /\ Cardinality({i \in 1..Len(s) : s[i] = " "}) =
                        Cardinality(HdWordStarts(hd_columns[c]))
                  /\ \A i \in 1..(Len(s) - 1) :
                        s[i] = " " => ~isspace(s[i + 1])

\* C16 witness: the name "a\n\ta" became "a a", next to a second column
\* whose two spaces became one.
C16_Witness ==
    /\ hd_pc = "done"
    /\ hd_columns = <<<<"a", "\n", "\t", "a">>, HdSecondName>>
    /\ hd_out = <<<<"a", " ", "a">>, <<"a", " ", "a">>>>

----------------------------------------------------------------------------
(* The item pipelines: modules/pipelines.py                                *)
(*                                                                         *)
(* A pipeline object lives through open_spider, any number of process_item *)
(* calls and close_spider.  An exporter is named by its position in        *)
(* pl_exporters, where the file it was built on is kept; a file is the     *)
(* sequence of the items written to it (files are opened in append mode,   *)
(* which creates them).  An exception raised by process_item ends that     *)
(* call only: the crawling framework logs it and goes on with the next     *)
(* item.                                                                   *)

\* bound: process_item calls of a run
MaxItems == 4

\* the states whose spiders feed the pipeline
PlStateNames == {"Alabama", "Alaska", "Arizona"}

\* config.name2abbrev
name2abbrev(state_name) ==
    CASE state_name = "Alabama" -> "AL"
      [] state_name = "Alaska" -> "AK"
      [] state_name = "Arizona" -> "AZ"

\* os.path.join(SAVEDIR, f'{state}_WARN_Notices.jsonl'), below SAVEDIR
jsonl_path(state) == state \o "_WARN_Notices.jsonl"

\* f'{state}_WARN_Notices_raw.csv' and f'{state}_WARN_Notices_normalized.csv'
csv_raw_path(state) == state \o "_WARN_Notices_raw.csv"
csv_norm_path(state) == state \o "_WARN_Notices_normalized.csv"

\* open(file_path, 'ab'): the file exists afterwards, its content is kept
open_ab(files, file_path) ==
    IF file_path \in DOMAIN files THEN files
    ELSE dict_update(files, file_path, <<>>)

\* a slip in _exporter_for_item: the test "state not in
\* self.state_to_exporter" left out, so every item gets a new exporter
jsonl_exporter_always_new(state_to_exporter, exporters, files, item) ==
    LET state == name2abbrev(item.state_name)
        file_path == jsonl_path(state)
        exporter == Len(exporters) + 1
    IN  [state_to_exporter |->
            dict_update(state_to_exporter, state,
                        [exporter |-> exporter, file |-> file_path]),
         exporters |-> Append(exporters,
                              [state |-> state, file |-> file_path]),
         files |-> open_ab(files, file_path),
         raised |-> FALSE,
         exporter |-> exporter]

\* PerStateJsonlinesExportPipeline._exporter_for_item (pipelines.py 20-29)
jsonl_exporter_for_item(state_to_exporter, exporters, files, item) ==
    LET state == name2abbrev(item.state_name)
        file_path == jsonl_path(state)
        exporter == Len(exporters) + 1
    IN  IF state \notin DOMAIN state_to_exporter
        THEN [state_to_exporter |->
                 dict_update(state_to_exporter, state,
                             [exporter |-> exporter, file |-> file_path]),
              exporters |-> Append(exporters,
                                   [state |-> state, file |-> file_path]),
              files |-> open_ab(files, file_path),
              raised |-> FALSE,
              exporter |-> exporter]
        ELSE [state_to_exporter |-> state_to_exporter,
              exporters |-> exporters,
              files |-> files,
              raised |-> FALSE,
              exporter |-> state_to_exporter[state].exporter]

\* PerStateCsvExportPipeline._exporter_for_item (pipelines.py 53-66):
\* file_path is assigned twice before the two open calls, so both files
\* are opened at the second path; the two exporters are built; then
\* self.state_to_exporter[state] = (exporter, csv_file_norm) reads the name
\* exporter, which is bound nowhere: NameError
csv_exporter_for_item(state_to_exporter, exporters, files, item) ==
    LET state == name2abbrev(item.state_name)
        file_path1 == csv_raw_path(state)
        file_path == csv_norm_path(state)
    IN  IF state \notin DOMAIN state_to_exporter
        THEN [state_to_exporter |-> state_to_exporter,
              exporters |-> exporters \o
                            <<[state |-> state, file |-> file_path],
                              [state |-> state, file |-> file_path]>>,
              files |-> open_ab(open_ab(files, file_path), file_path),
              raised |-> TRUE,
              exporter |-> 0]
        ELSE [state_to_exporter |-> state_to_exporter,
              exporters |-> exporters,
              files |-> files,
              raised |-> FALSE,
              exporter |-> state_to_exporter[state][1]]

\* exporter.export_item(item): the item is written to the exporter's file
export_item(exporters, files, exporter, item) ==
    LET file_path == exporters[exporter].file
    IN  dict_update(files, file_path, Append(files[file_path], item))

InitPipeline ==
    /\ pl_kind \in {"Jsonlines", "Csv"}
    /\ pl_pc = "created"
    /\ pl_state_to_exporter = <<>>
    /\ pl_exporters = <<>>
    /\ pl_files = <<>>
    /\ pl_calls = <<>>
    /\ CleanIdle
    /\ HtmlIdle
    /\ PdfIdle
    /\ ExcelIdle
    /\ SpiderIdle
    /\ HeaderIdle
    /\ RunIdle
    /\ PagesIdle
    /\ LinksIdle

\* open_spider(spider)
OpenSpider ==
    /\ pl_pc = "created"
    /\ pl_pc' = "open"
    /\ pl_state_to_exporter' = <<>>
    /\ UNCHANGED <<pl_kind, pl_exporters, pl_files, pl_calls>>
    /\ UNCHANGED notPipeline

\* process_item(item, spider) for an item of one of the states
ProcessItem ==
    /\ pl_pc = "open"
    /\ Len(pl_calls) < MaxItems
    /\ \E state_name \in PlStateNames :
          LET item == [state_name |-> state_name, n |-> Len(pl_calls) + 1]
              r == IF pl_kind = "Jsonlines"
                   THEN jsonl_exporter_for_item(pl_state_to_exporter,
                            pl_exporters, pl_files, item)
                   ELSE csv_exporter_for_item(pl_state_to_exporter,
                            pl_exporters, pl_files, item)
          IN  /\ pl_state_to_exporter' = r.state_to_exporter
              /\ pl_exporters' = r.exporters
              /\ IF r.raised
                 THEN /\ pl_files' = r.files
                      /\ pl_calls' = Append(pl_calls,
                            [item |-> item, outcome |-> "raised",
                             exporter |-> 0])
                 ELSE /\ pl_files' = export_item(r.exporters, r.files,
                                                 r.exporter, item)
                      /\ pl_calls' = Append(pl_calls,
                            [item |-> item, outcome |-> "returned",
                             exporter |-> r.exporter])
    /\ UNCHANGED <<pl_kind, pl_pc>>
    /\ UNCHANGED notPipeline

\* close_spider(spider): every exporter finished, every file closed
CloseSpider ==
    /\ pl_pc = "open"
    /\ pl_pc' = "closed"
    /\ UNCHANGED <<pl_kind, pl_state_to_exporter, pl_exporters, pl_files,
                   pl_calls>>
    /\ UNCHANGED notPipeline

NextPipeline == OpenSpider \/ ProcessItem \/ CloseSpider

SpecPipeline == InitPipeline /\ [][NextPipeline]_vars

\* the process_item calls made for items of a state
PlCallsOf(state) ==
    {k \in 1..Len(pl_calls) :
        name2abbrev(pl_calls[k].item.state_name) = state}

\* C17: between open_spider and close_spider the Jsonlines pipeline holds
\* at most one (exporter, file) pair per state abbreviation, created on the
\* first item of the state and reused afterwards, and every item is
\* exported through the pair of its own state: no item is written to the
\* file of another state.
C17_OneExporterPerState ==
    pl_kind = "Jsonlines" =>
        /\ \A i, j \in 1..Len(pl_exporters) :
              pl_exporters[i].state = pl_exporters[j].state => i = j
        /\ \A i \in 1..Len(pl_exporters) :
              /\ PlCallsOf(pl_exporters[i].state) # {}
              /\ pl_exporters[i].file = jsonl_path(pl_exporters[i].state)
              /\ pl_exporters[i].state \in DOMAIN pl_state_to_exporter
              /\ pl_state_to_exporter[pl_exporters[i].state].exporter = i
        /\ \A k \in 1..Len(pl_calls) :
              LET state == name2abbrev(pl_calls[k].item.state_name)
              IN  /\ pl_calls[k].outcome = "returned"
                  /\ state \in DOMAIN pl_state_to_exporter
                  /\ pl_calls[k].exporter =
                        pl_state_to_exporter[state].exporter
                  /\ pl_exporters[pl_calls[k].exporter].state = state
        /\ \A state \in {name2abbrev(n) : n \in PlStateNames} :
              /\ jsonl_path(state) \in DOMAIN pl_files <=>
                    PlCallsOf(state) # {}
              /\ jsonl_path(state) \in DOMAIN pl_files =>
                    /\ Len(pl_files[jsonl_path(state)]) =
                          Cardinality(PlCallsOf(state))
                    /\ \A m \in 1..Len(pl_files[jsonl_path(state)]) :
                          name2abbrev(
                            pl_files[jsonl_path(state)][m].state_name)
                              = state

\* C17 witness: after four items (Alabama, Alaska, Alabama, Alaska) two
\* exporters exist and each file holds the two items of its state.
C17_Witness ==
    /\ pl_kind = "Jsonlines"
    /\ Len(pl_calls) = 4
    /\ Len(pl_exporters) = 2
    /\ pl_calls[1].item.state_name = "Alabama"
    /\ pl_calls[2].item.state_name = "Alaska"
    /\ pl_calls[3].exporter = 1
    /\ pl_calls[4].exporter = 2
    /\ Len(pl_files["AL_WARN_Notices.jsonl"]) = 2
    /\ Len(pl_files["AK_WARN_Notices.jsonl"]) = 2

\* C18: for each state it receives an item of, the Csv pipeline creates two
\* separate files, '<state>_WARN_Notices_raw.csv' and
\* '<state>_WARN_Notices_normalized.csv', and process_item exports the item
\* and returns it without raising.
C18_Original ==
    pl_kind = "Csv" =>
        /\ \A k \in 1..Len(pl_calls) : pl_calls[k].outcome = "returned"
        /\ \A state \in {name2abbrev(n) : n \in PlStateNames} :
              PlCallsOf(state) # {} =>
                  /\ csv_raw_path(state) \in DOMAIN pl_files
                  /\ csv_norm_path(state) \in DOMAIN pl_files

----------------------------------------------------------------------------
(* The run: run_scrape.py, on top of config.CONFIG                         *)
(*                                                                         *)
(* run_scrape.py imports CONFIG, which config.py builds on import from the *)
(* rows of the scrape_cfg file, passing every Archive URL cell through     *)
(* get_valid_uri.  Then either main is called, or add_state_to_process is  *)
(* called on its own, without a process.  A process is a record: its kind  *)
(* (a CrawlerProcess, the function initialize_process, or None) and the    *)
(* states whose spiders were scheduled on it by crawl, in order.           *)

\* list(CONFIG.keys()): the states of the scrape_cfg file, in its order
RnStates == <<"AL", "AK", "AZ">>

\* what an Archive URL cell can hold: a URL, a URL without a path, the
\* path of a file, some other text, or nothing (read_csv gives NaN)
RnCells == {"https://a.gov/warn", "https://a.gov", "warn.csv", "n/a", NaN}

\* the local files that exist
RnFiles == {"warn.csv"}

\* urllib.parse.urlparse on the texts above
urlparse(x) ==
    CASE x = "https://a.gov/warn" ->
            [scheme |-> "https", netloc |-> "a.gov", path |-> "/warn"]
      [] x = "https://a.gov" ->
            [scheme |-> "https", netloc |-> "a.gov", path |-> ""]
      [] OTHER -> [scheme |-> "", netloc |-> "", path |-> x]

\* utils.is_valid_url: urlparse raises on a value that is no text, and the
\* bare except turns that into False
is_valid_url(x) ==
    IF x = NaN THEN FALSE
    ELSE LET result == urlparse(x)
         IN  result.scheme # "" /\ result.netloc # "" /\ result.path # ""

\* utils.path_to_uri
path_to_uri(filepath) == "file:///" \o filepath

\* utils.get_valid_uri: os.path.isfile raises TypeError on a float, and
\* the branch of an existing file reads the name filepath, bound nowhere
get_valid_uri(x) ==
    IF is_valid_url(x) THEN [raised |-> "", value |-> x]
    ELSE IF x = NaN THEN [raised |-> "TypeError", value |-> None]
    ELSE IF x \in RnFiles THEN [raised |-> "NameError", value |-> None]
    ELSE [raised |-> "", value |-> None]

\* config.StateConfig.__init__ on a row of _create_config_dict, which has
\* all the required keys
StateConfig(row) ==
    [STATE_ABBREV |-> row.abbreviation, URL |-> row.archive_url]

\* the first state, in the order of the rows, whose cell makes
\* get_valid_uri raise; 0 when there is none
RnFirstRaising(rows) ==
    LET bad == {k \in 1..Len(RnStates) :
                   get_valid_uri(rows[RnStates[k]]).raised # ""}
    IN  IF bad = {} THEN 0
        ELSE CHOOSE k \in bad : \A j \in bad : k <= j

\* the values of a process variable
NoProcess == [kind |-> "None", crawlers |-> <<>>]
NewCrawlerProcess == [kind |-> "CrawlerProcess", crawlers |-> <<>>]
initialize_process_function == [kind |-> "function", crawlers |-> <<>>]

\* run_scrape.add_state_to_process(state, process)
add_state_to_process(CONFIG, state, process) ==
    LET isNewProcess == process.kind = "None"
        p == IF isNewProcess THEN initialize_process_function ELSE process
    IN  IF CONFIG[state].URL # None
        THEN IF p.kind = "CrawlerProcess"
             THEN LET q == [p EXCEPT !.crawlers = Append(@, state)]
                  IN  [raised |-> "", process |-> q, log |-> <<>>,
                       ret |-> IF isNewProcess THEN q ELSE NoProcess]
             ELSE [raised |-> "AttributeError", process |-> p,
                   log |-> <<>>, ret |-> NoProcess]
        ELSE [raised |-> "", process |-> p,
              log |-> <<"Skipping " \o state>>,
              ret |-> IF isNewProcess THEN p ELSE NoProcess]

RnCalls ==
    {[fn |-> "main", state |-> None]}
        \cup {[fn |-> f, state |-> RnStates[k]] :
                f \in {"main", "add_state_to_process"},
                k \in 1..Len(RnStates)}

InitRun ==
    /\ rn_rows \in [Range(RnStates) -> RnCells]
    /\ rn_call \in RnCalls
    /\ rn_pc = "import"
    /\ rn_CONFIG = <<>>
    /\ rn_process = NoProcess
    /\ rn_todo = <<>>
    /\ rn_log = <<>>
    /\ rn_ret = None
    /\ CleanIdle
    /\ HtmlIdle
    /\ PdfIdle
    /\ ExcelIdle
    /\ SpiderIdle
    /\ HeaderIdle
    /\ PipelineIdle
    /\ PagesIdle
    /\ LinksIdle

\* from config import CONFIG: _create_config_dict
CreateConfig ==
    /\ rn_pc = "import"
    /\ LET k == RnFirstRaising(rn_rows)
       IN  IF k # 0
           THEN /\ rn_pc' = "raised"
                /\ rn_ret' = get_valid_uri(rn_rows[RnStates[k]]).raised
                /\ UNCHANGED rn_CONFIG
           ELSE /\ rn_pc' = "imported"
                /\ rn_CONFIG' =
                      [s \in Range(RnStates) |->
                          StateConfig([abbreviation |-> s,
                              archive_url |->
                                  get_valid_uri(rn_rows[s]).value])]
                /\ UNCHANGED rn_ret
    /\ UNCHANGED <<rn_rows, rn_call, rn_process, rn_todo, rn_log>>
    /\ UNCHANGED notRun

\* main: process = initialize_process(), and the states to add
MainInitializeProcess ==
    /\ rn_pc = "imported"
    /\ rn_call.fn = "main"
    /\ rn_process' = NewCrawlerProcess
    /\ rn_todo' = IF rn_call.state # None THEN <<rn_call.state>>
                  ELSE RnStates
    /\ rn_pc' = "adding"
    /\ UNCHANGED <<rn_rows, rn_call, rn_CONFIG, rn_log, rn_ret>>
    /\ UNCHANGED notRun

\* main: add_state_to_process(s, process=process) for the next state
MainAddState ==
    /\ rn_pc = "adding"
    /\ rn_todo # <<>>
    /\ LET r == add_state_to_process(rn_CONFIG, Head(rn_todo), rn_process)
       IN  IF r.raised # ""
           THEN /\ rn_pc' = "raised"
                /\ rn_ret' = r.raised
                /\ UNCHANGED <<rn_process, rn_todo, rn_log>>
           ELSE /\ rn_process' = r.process
                /\ rn_log' = rn_log \o r.log
                /\ rn_todo' = Tail(rn_todo)
                /\ UNCHANGED <<rn_pc, rn_ret>>
    /\ UNCHANGED <<rn_rows, rn_call, rn_CONFIG>>
    /\ UNCHANGED notRun

\* main: process.start()
MainStart ==
    /\ rn_pc = "adding"
    /\ rn_todo = <<>>
    /\ rn_pc' = "started"
    /\ UNCHANGED <<rn_rows, rn_call, rn_CONFIG, rn_process, rn_todo, rn_log,
                   rn_ret>>
    /\ UNCHANGED notRun

\* add_state_to_process(state), called without a process
AddStateToProcess ==
    /\ rn_pc = "imported"
    /\ rn_call.fn = "add_state_to_process"
    /\ LET r == add_state_to_process(rn_CONFIG, rn_call.state, NoProcess)
       IN  IF r.raised # ""
           THEN /\ rn_pc' = "raised"
                /\ rn_ret' = r.raised
                /\ UNCHANGED rn_log
           ELSE /\ rn_pc' = "returned"
                /\ rn_ret' = r.ret
                /\ rn_log' = rn_log \o r.log
    /\ UNCHANGED <<rn_rows, rn_call, rn_CONFIG, rn_process, rn_todo>>
    /\ UNCHANGED notRun

NextRun ==
    \/ CreateConfig
    \/ MainInitializeProcess
    \/ MainAddState
    \/ MainStart
    \/ AddStateToProcess

SpecRun == InitRun /\ [][NextRun]_vars

\* the states main is asked to run
RnAsked == IF rn_call.state # None THEN <<rn_call.state>> ELSE RnStates

\* whether the Archive URL cell of a state holds a valid URL
RnUrlValid(s) == is_valid_url(rn_rows[s])

\* the states of a sequence that satisfy a test, in order
RnSelect(states, Test(_)) ==
    Pick(states, Positions(Len(states), LAMBDA i : Test(states[i])))

\* the warning logged for each state of a sequence
RnWarnings(states) ==
    [k \in 1..Len(states) |-> "Skipping " \o states[k]]

\* C19: main() schedules a spider for exactly the asked states (all states
\* of the configuration when no state is given, else the given one) whose
\* URL is valid; a state with no URL or an invalid URL is skipped with a
\* logged warning and prevents neither the scheduling of the other states
\* nor the start of the crawl: the run never ends in an exception.
C19_Original ==
    rn_call.fn = "main" =>
        /\ rn_pc # "raised"
        /\ rn_pc = "started" =>
              /\ rn_process.crawlers = RnSelect(RnAsked, RnUrlValid)
              /\ rn_log = RnWarnings(
                    RnSelect(RnAsked, LAMBDA s : ~RnUrlValid(s)))

\* C20: add_state_to_process called without a process (CONFIG having been
\* built) returns a new crawl process, on which the spider of the state is
\* scheduled when the URL of the state is valid; the call does not raise.
C20_Original ==
    (/\ rn_call.fn = "add_state_to_process"
     /\ rn_CONFIG # <<>>
     /\ rn_pc \in {"raised", "returned"})
        => /\ rn_pc = "returned"
           /\ rn_ret.kind = "CrawlerProcess"
           /\ RnUrlValid(rn_call.state) =>
                 rn_ret.crawlers = <<rn_call.state>>

----------------------------------------------------------------------------
(* Pagination: WARNSpider.parse_as_df following the next-page links        *)
(*                                                                         *)
(* A spider reaches parse_as_df either from its parse method, on the       *)
(* response of the start URL and with keyword arguments of its own, or     *)
(* through parse_links, which follows every matching link with             *)
(* parse_as_df as callback.  Each link starts a chain of result pages:     *)
(* page p of a chain of n pages has a next link exactly when p < n.  The   *)
(* engine answers the pending requests in any order.  Keyword arguments    *)
(* are a function from the names given to their values.                    *)

\* bounds: chains (links followed by parse_links), pages per chain
MaxChains == 2
MaxPages == 3

\* the defaults of parse_as_df (base.py 76-77); todf_kwargs is the set of
\* its keys
parse_as_df_defaults ==
    [parse_as |-> None, save_to_file |-> TRUE, next_page_text |-> None,
     todf_kwargs |-> {}, custom_todf |-> None]

\* the arguments parse_as_df runs with when called with the keyword
\* arguments kw
parse_as_df_args(kw) ==
    [name \in DOMAIN parse_as_df_defaults |->
        IF name \in DOMAIN kw THEN kw[name] ELSE parse_as_df_defaults[name]]

\* data_format of a call (base.py 87-91)
parse_as_df_data_format(data_format, args) ==
    IF args.parse_as = None THEN data_format ELSE args.parse_as

\* to_df of a call (base.py 87-96), by name
parse_as_df_to_df(data_format, args) ==
    IF args.custom_todf # None THEN args.custom_todf
    ELSE "todf." \o parse_as_df_data_format(data_format, args)

\* cb_kwargs of the request for the next page (base.py 153)
next_page_cb_kwargs(args) ==
    [name \in {"parse_as", "save_to_file", "next_page_text", "todf_kwargs"}
        |-> args[name]]

\* parse_kwargs of parse_links (base.py 228-231)
parse_links_kwargs(format, next_page_text, custom_todf, todf_kwargs) ==
    [name \in {"parse_as", "next_page_text", "custom_todf", "todf_kwargs"}
        |-> CASE name = "parse_as" -> format
              [] name = "next_page_text" -> next_page_text
              [] name = "custom_todf" -> custom_todf
              [] OTHER -> todf_kwargs]

PgSettings ==
    [parse_as : {None, "html", "pdf"},
     save_to_file : BOOLEAN,
     next_page_text : {None, ">"},
     todf_kwargs : {{}, {"drop_first_row"}},
     custom_todf : {None, "ctodf.html_NJ"}]

InitPages ==
    /\ pg_spider \in {"html", "pdf"}
    /\ \E via \in {"parse", "parse_links"} : \E a \in PgSettings :
          /\ via = "parse_links" => a.save_to_file
          /\ pg_call = [via |-> via, args |-> a]
          /\ \E n \in 1..MaxChains :
                /\ via = "parse" => n = 1
                /\ pg_chains \in [1..n -> 1..MaxPages]
    /\ pg_pc = "start"
    /\ pg_requests = {}
    /\ pg_page_count = 0
    /\ pg_parsed = [c \in 1..Len(pg_chains) |-> <<>>]
    /\ pg_log = {}
    /\ CleanIdle
    /\ HtmlIdle
    /\ PdfIdle
    /\ ExcelIdle
    /\ SpiderIdle
    /\ HeaderIdle
    /\ PipelineIdle
    /\ RunIdle
    /\ LinksIdle

\* parse(response) of the spider: parse_as_df on the response itself with
\* the arguments of the spider, or parse_links, one request per link
PagesParse ==
    /\ pg_pc = "start"
    /\ pg_pc' = "crawling"
    /\ pg_requests' =
          IF pg_call.via = "parse"
          THEN {[chain |-> 1, page |-> 1, cb_kwargs |-> pg_call.args]}
          ELSE {[chain |-> c, page |-> 1,
                 cb_kwargs |->
                    parse_links_kwargs(pg_call.args.parse_as,
                        pg_call.args.next_page_text,
                        pg_call.args.custom_todf,
                        pg_call.args.todf_kwargs)] :
                    c \in 1..Len(pg_chains)}
    /\ UNCHANGED <<pg_spider, pg_chains, pg_call, pg_page_count, pg_parsed,
                   pg_log>>
    /\ UNCHANGED notPages

\* parse_as_df(response, **cb_kwargs) on the answer to one pending request
PagesParseAsDf ==
    /\ pg_pc = "crawling"
    /\ \E req \in pg_requests :
          LET args == parse_as_df_args(req.cb_kwargs)
              data_format == parse_as_df_data_format(pg_spider, args)
              to_df == parse_as_df_to_df(pg_spider, args)
              has_next == req.page < pg_chains[req.chain]
              paging == args.next_page_text # None /\ data_format = "html"
          IN  /\ pg_parsed' =
                    [pg_parsed EXCEPT ![req.chain] =
                        Append(@, [page |-> req.page, to_df |-> to_df,
                                   args |-> args])]
              /\ IF paging /\ has_next
                 THEN /\ pg_page_count' = pg_page_count + 1
                      /\ pg_requests' = (pg_requests \ {req}) \cup
                            {[chain |-> req.chain, page |-> req.page + 1,
                              cb_kwargs |-> next_page_cb_kwargs(args)]}
                      /\ UNCHANGED pg_log
                 ELSE /\ pg_requests' = pg_requests \ {req}
                      /\ pg_log' =
                            IF paging
                            THEN pg_log \cup
                                 {[chain |-> req.chain,
                                   page_count |-> pg_page_count]}
                            ELSE pg_log
                      /\ UNCHANGED pg_page_count
    /\ UNCHANGED <<pg_spider, pg_chains, pg_call, pg_pc>>
    /\ UNCHANGED notPages

\* no request is pending: the spider is closed
PagesClose ==
    /\ pg_pc = "crawling"
    /\ pg_requests = {}
    /\ pg_pc' = "closed"
    /\ UNCHANGED <<pg_spider, pg_chains, pg_call, pg_requests,
                   pg_page_count, pg_parsed, pg_log>>
    /\ UNCHANGED notPages

NextPages == PagesParse \/ PagesParseAsDf \/ PagesClose

SpecPages == InitPages /\ [][NextPages]_vars

\* C23: every page of a pagination chain is parsed with the parse settings
\* of the first page of the chain (parse_as, save_to_file, next_page_text,
\* todf_kwargs and custom_todf) and so by the same extractor function.
C23_Original ==
    \A c \in 1..Len(pg_parsed) : \A k \in 1..Len(pg_parsed[c]) :
        /\ pg_parsed[c][k].args = pg_parsed[c][1].args
        /\ pg_parsed[c][k].to_df = pg_parsed[c][1].to_df

\* C24: the page_count reported by 'Downloaded N pages of results' at the
\* end of a chain equals the number of result pages downloaded and parsed
\* in that chain, with one chain or several.
C24_Original ==
    \A m \in pg_log : m.page_count = Len(pg_parsed[m.chain])

----------------------------------------------------------------------------
(* Link search: WARNSpider.get_links, called by parse_links                *)
(*                                                                         *)
(* The response is the sequence of its a elements in document order, each  *)
(* with its text and its href; texts and hrefs are sequences of            *)
(* characters.  An optional argument is <<>> for None and <<s>> for the    *)
(* string s.                                                               *)

\* bound: a elements of the response
MaxAnchors == 2

LkTexts == {<<"W">>, <<"x">>, <<"x", "W">>}
LkHrefs == {<<"a">>, <<"b">>, <<"a", "P">>, <<"b", "P">>}

LkArgs ==
    [find_in_text : {<<>>, <<<<>>>>, <<<<"W">>>>},
     find_in_href : {<<>>, <<<<"a">>>>},
     exclude_from_href : {<<>>, <<<<"P">>>>}]

\* truth value of an optional string: None and '' are false
truthy(opt) == opt # <<>> /\ opt[1] # <<>>

\* XPath contains(), Python's in: needle occurs in hay
contains(hay, needle) ==
    \E i \in 1..(Len(hay) - Len(needle) + 1) :
        SubSeq(hay, i, i + Len(needle) - 1) = needle

\* ord() of the characters of the model
ord(ch) ==
    CASE ch = "P" -> 80
      [] ch = "W" -> 87
      [] ch = "a" -> 97
      [] ch = "b" -> 98
      [] OTHER -> 120

\* x < y for strings
RECURSIVE str_lt(_, _)
str_lt(x, y) ==
    IF y = <<>> THEN FALSE
    ELSE IF x = <<>> THEN TRUE
    ELSE IF ord(Head(x)) # ord(Head(y)) THEN ord(Head(x)) < ord(Head(y))
    ELSE str_lt(Tail(x), Tail(y))

\* hrefs = list(set(hrefs)) ... hrefs.sort(), on the set of hrefs
RECURSIVE list_sort(_)
list_sort(S) ==
    IF S = {} THEN <<>>
    ELSE LET m == CHOOSE x \in S : \A y \in S : x = y \/ str_lt(x, y)
         IN  <<m>> \o list_sort(S \ {m})

\* response.xpath(...).getall() of get_links (base.py 260-265)
xpath_hrefs(anchors, args) ==
    LET hit(i) ==
            /\ truthy(args.find_in_text) =>
                  contains(anchors[i].text, args.find_in_text[1])
            /\ truthy(args.find_in_href) =>
                  contains(anchors[i].href, args.find_in_href[1])
    IN  [k \in 1..Len(Positions(Len(anchors), hit)) |->
            anchors[Positions(Len(anchors), hit)[k]].href]

\* get_links(response, **args) (base.py 255-279): the value returned,
\* <<>> for None and <<hrefs>> for a list, and the records logged
get_links(anchors, args) ==
    IF ~(truthy(args.find_in_text) \/ truthy(args.find_in_href))
    THEN [ret |-> <<>>,
          log |-> <<[level |-> "error", msg |-> "Supply one or both"]>>]
    ELSE LET hrefs == xpath_hrefs(anchors, args)
             kept == {x \in Range(hrefs) :
                         truthy(args.exclude_from_href) =>
                             ~contains(x, args.exclude_from_href[1])}
         IN  IF Len(hrefs) = 0
             THEN [ret |-> <<hrefs>>,
                   log |-> <<[level |-> "error",
                              msg |-> "No links found"]>>]
             ELSE [ret |-> <<list_sort(kept)>>,
                   log |-> <<[level |-> "info", msg |-> "Found links"]>>]

InitLinks ==
    /\ \E n \in 0..MaxAnchors :
          lk_anchors \in [1..n -> [text : LkTexts, href : LkHrefs]]
    /\ lk_args \in LkArgs
    /\ lk_pc = "start"
    /\ lk_ret = <<>>
    /\ lk_log = <<>>
    /\ lk_followed = <<>>
    /\ CleanIdle
    /\ HtmlIdle
    /\ PdfIdle
    /\ ExcelIdle
    /\ SpiderIdle
    /\ HeaderIdle
    /\ PipelineIdle
    /\ RunIdle
    /\ PagesIdle

\* parse_links: links = self.get_links(response, **link_kwargs)
LinksGetLinks ==
    /\ lk_pc = "start"
    /\ LET r == get_links(lk_anchors, lk_args)
       IN  /\ lk_ret' = r.ret
           /\ lk_log' = lk_log \o r.log
    /\ lk_pc' = "got"
    /\ UNCHANGED <<lk_anchors, lk_args, lk_followed>>
    /\ UNCHANGED notLinks

\* parse_links: for link in links: yield response.follow(link, ...);
\* iterating None raises TypeError
LinksFollow ==
    /\ lk_pc = "got"
    /\ IF lk_ret = <<>>
       THEN /\ lk_pc' = "raised"
            /\ UNCHANGED lk_followed
       ELSE /\ lk_pc' = "followed"
            /\ lk_followed' = lk_ret[1]
    /\ UNCHANGED <<lk_anchors, lk_args, lk_ret, lk_log>>
    /\ UNCHANGED notLinks

NextLinks == LinksGetLinks \/ LinksFollow

SpecLinks == InitLinks /\ [][NextLinks]_vars

\* the hrefs of the a elements that meet the criteria given
LkMatching ==
    {lk_anchors[i].href : i \in
        {j \in 1..Len(lk_anchors) :
            /\ lk_args.find_in_text # <<>> =>
                  contains(lk_anchors[j].text, lk_args.find_in_text[1])
            /\ lk_args.find_in_href # <<>> =>
                  contains(lk_anchors[j].href, lk_args.find_in_href[1])}}

\* C26: for every combination of arguments get_links returns a list of
\* hrefs: only hrefs of links that meet the text and / or href criteria,
\* none twice, in ascending order, none that includes exclude_from_href;
\* the empty list when nothing matches.
C26_Original ==
    lk_pc \in {"got", "followed", "raised"} =>
        /\ lk_ret # <<>>
        /\ LET hrefs == lk_ret[1]
           IN  /\ Range(hrefs) \subseteq LkMatching
               /\ \A i, j \in 1..Len(hrefs) :
                     i < j => str_lt(hrefs[i], hrefs[j])
               /\ \A i \in 1..Len(hrefs) :
                     lk_args.exclude_from_href # <<>> =>
                        ~contains(hrefs[i], lk_args.exclude_from_href[1])
               /\ LkMatching = {} => hrefs = <<>>

\* C27: get_valid_uri(x) never raises: it returns x when x is a URL with
\* scheme, network location and path, 'file:///' + x when x is the path of
\* an existing local file, and None otherwise; so CONFIG is built for every
\* content of the Archive URL cells, each state with that value as URL.
C27_Original ==
    rn_pc \notin {"idle", "import"} =>
        /\ rn_CONFIG # <<>>
        /\ \A s \in Range(RnStates) :
              rn_CONFIG[s].URL =
                  IF is_valid_url(rn_rows[s]) THEN rn_rows[s]
                  ELSE IF rn_rows[s] \in RnFiles
                       THEN "file:///" \o rn_rows[s]
                       ELSE None

====
